---- MODULE Spec2Model ----
(***************************************************************************)
(* State-machine model of WebChess Pro's rules engine (ChessEngine in      *)
(* scripts/engine.js): pseudo-move generation, the attack oracle, the      *)
(* legality filter, makeMove, undoMove, reset, and FEN export / import.    *)
(* Squares are the source's indices 0..63 (0 = a8, 63 = h1); a piece is    *)
(* the source's two-character token ("wP", "bK", ...).                     *)
(***************************************************************************)
EXTENDS Integers, Sequences, FiniteSets, TLC

(***************************************************************************)
(* Representation of null / undefined                                      *)
(***************************************************************************)
\* null in a board cell, in promoteTo, in captured
Null == "null"
\* null enPassantTarget, absent rookFrom / rookTo / capturedSq, findIndex miss
NoSq == -1

Squares == 0..63

PIECES == {"wP", "wR", "wN", "wB", "wQ", "wK", "bP", "bR", "bN", "bB", "bQ", "bK"}

colorTable ==
  [wP |-> "w", wR |-> "w", wN |-> "w", wB |-> "w", wQ |-> "w", wK |-> "w",
   bP |-> "b", bR |-> "b", bN |-> "b", bB |-> "b", bQ |-> "b", bK |-> "b"]

typeTable ==
  [wP |-> "P", wR |-> "R", wN |-> "N", wB |-> "B", wQ |-> "Q", wK |-> "K",
   bP |-> "P", bR |-> "R", bN |-> "N", bB |-> "B", bQ |-> "Q", bK |-> "K"]

\* color + type, as the source concatenates them
pieceTable ==
  [w |-> [P |-> "wP", R |-> "wR", N |-> "wN", B |-> "wB", Q |-> "wQ", K |-> "wK"],
   b |-> [P |-> "bP", R |-> "bR", N |-> "bN", B |-> "bB", Q |-> "bQ", K |-> "bK"]]

(***************************************************************************)
(* Coordinate helpers                                                      *)
(***************************************************************************)
Idx(r, f) == r * 8 + f
Row(i) == i \div 8
Col(i) == i % 8
Color(p) == IF p = Null THEN Null ELSE colorTable[p]
Type(p) == IF p = Null THEN Null ELSE typeTable[p]
Opp(c) == IF c = "w" THEN "b" ELSE "w"
IsValid(r, f) == r >= 0 /\ r < 8 /\ f >= 0 /\ f < 8

RECURSIVE FlattenRange(_, _, _)
\* ss[lo] \o ... \o ss[hi], halving the range
FlattenRange(ss, lo, hi) ==
  IF lo > hi THEN <<>>
  ELSE IF lo = hi THEN ss[lo]
  ELSE LET mid == (lo + hi) \div 2
       IN FlattenRange(ss, lo, mid) \o FlattenRange(ss, mid + 1, hi)

\* the concatenation of a sequence of sequences (moves.push(...more))
Flatten(ss) == FlattenRange(ss, 1, Len(ss))

(***************************************************************************)
(* Board initialisation                                                    *)
(***************************************************************************)
backRank == <<"R", "N", "B", "Q", "K", "B", "N", "R">>

StartBoard ==
  [i \in Squares |->
     IF Row(i) = 0 THEN pieceTable["b"][backRank[Col(i) + 1]]
     ELSE IF Row(i) = 1 THEN "bP"
     ELSE IF Row(i) = 6 THEN "wP"
     ELSE IF Row(i) = 7 THEN pieceTable["w"][backRank[Col(i) + 1]]
     ELSE Null]

StartRights == [wK |-> TRUE, wQ |-> TRUE, bK |-> TRUE, bQ |-> TRUE]

\* gameResult = null
NoResult == [winner |-> Null, reason |-> Null]

\* first index holding the piece, or -1 (Array.prototype.findIndex)
FindKing(board, color) ==
  LET king == pieceTable[color]["K"]
      hits == {i \in Squares : board[i] = king}
  IN IF hits = {} THEN NoSq ELSE CHOOSE i \in hits : \A j \in hits : i <= j

(***************************************************************************)
(* Moves: the source's move objects, absent fields spelled out             *)
(***************************************************************************)
Mv(from, to, type) ==
  [from |-> from, to |-> to, type |-> type, promoteTo |-> Null,
   rookFrom |-> NoSq, rookTo |-> NoSq, capturedSq |-> NoSq]

PromoMv(from, to, type, pp) == [Mv(from, to, type) EXCEPT !.promoteTo = pp]
CastleMv(from, to, type, rf, rt) ==
  [Mv(from, to, type) EXCEPT !.rookFrom = rf, !.rookTo = rt]
EpMv(from, to, cs) == [Mv(from, to, "enPassant") EXCEPT !.capturedSq = cs]

\* the promotion pieces pushed in the opposite order
promoOrderKnightFirst == <<"N", "B", "R", "Q">>
promoOrder == <<"Q", "R", "B", "N">>

\* the jump table with its last entry mistyped
knightJumpsTypo ==
  << <<-2, -1>>, <<-2, 1>>, <<-1, -2>>, <<-1, 2>>,
     <<1, -2>>, <<1, 2>>, <<2, -1>>, <<2, 2>> >>
knightJumps ==
  << <<-2, -1>>, <<-2, 1>>, <<-1, -2>>, <<-1, 2>>,
     <<1, -2>>, <<1, 2>>, <<2, -1>>, <<2, 1>> >>
diagDirs == << <<-1, -1>>, <<-1, 1>>, <<1, -1>>, <<1, 1>> >>
straightDirs == << <<-1, 0>>, <<1, 0>>, <<0, -1>>, <<0, 1>> >>
allDirs ==
  << <<-1, -1>>, <<-1, 0>>, <<-1, 1>>, <<0, -1>>,
     <<0, 1>>, <<1, -1>>, <<1, 0>>, <<1, 1>> >>

(***************************************************************************)
(* Pseudo-legal move generation                                            *)
(***************************************************************************)
RECURSIVE AddSlide(_, _, _, _, _, _, _)
AddSlide(board, from, color, nr, nf, dr, df) ==
  IF ~IsValid(nr, nf) THEN <<>>
  ELSE LET to == Idx(nr, nf) IN
       IF board[to] = Null
       THEN <<Mv(from, to, "normal")>>
              \o AddSlide(board, from, color, nr + dr, nf + df, dr, df)
       ELSE IF Color(board[to]) # color
            THEN <<Mv(from, to, "capture")>>
            ELSE <<>>

AddStep(board, from, color, dr, df) ==
  LET nr == Row(from) + dr
      nf == Col(from) + df
      to == Idx(nr, nf)
  IN IF ~IsValid(nr, nf) THEN <<>>
     ELSE IF board[to] = Null THEN <<Mv(from, to, "normal")>>
     ELSE IF Color(board[to]) # color THEN <<Mv(from, to, "capture")>>
     ELSE <<>>

SlideAll(board, from, color, dirs) ==
  Flatten([k \in 1..Len(dirs) |->
             AddSlide(board, from, color, Row(from) + dirs[k][1],
                      Col(from) + dirs[k][2], dirs[k][1], dirs[k][2])])

StepAll(board, from, color, dirs) ==
  Flatten([k \in 1..Len(dirs) |->
             AddStep(board, from, color, dirs[k][1], dirs[k][2])])

PawnMoves(board, from, enPassantTarget, color) ==
  LET r == Row(from)
      f == Col(from)
      dir == IF color = "w" THEN -1 ELSE 1
      start == IF color = "w" THEN 6 ELSE 1
      promoRow == IF color = "w" THEN 0 ELSE 7
      fwd == Idx(r + dir, f)
      isPromo == (r + dir = promoRow)
      fwd2 == Idx(r + 2 * dir, f)
      forward ==
        IF IsValid(r + dir, f) /\ board[fwd] = Null
        THEN (IF isPromo
              THEN [k \in 1..4 |->
                      PromoMv(from, fwd, "promotion", pieceTable[color][promoOrder[k]])]
              ELSE <<Mv(from, fwd, "normal")>>)
             \o (IF r = start /\ board[fwd2] = Null
                 THEN <<Mv(from, fwd2, "doublePush")>>
                 ELSE <<>>)
        ELSE <<>>
      Capture(df) ==
        IF ~IsValid(r + dir, f + df) THEN <<>>
        ELSE LET to == Idx(r + dir, f + df) IN
             (IF board[to] # Null /\ Color(board[to]) # color
              THEN IF isPromo
                   THEN [k \in 1..4 |->
                           PromoMv(from, to, "promotionCapture",
                                   pieceTable[color][promoOrder[k]])]
                   ELSE <<Mv(from, to, "capture")>>
              ELSE <<>>)
             \o (IF enPassantTarget = to
                 THEN <<EpMv(from, to, Idx(r, f + df))>>
                 ELSE <<>>)
  IN forward \o Capture(-1) \o Capture(1)

\* the castling candidates pushed inside the king's case of getPseudoMoves
KingCaseCastling(board, from, castlingRights, color) ==
  IF color = "w"
  THEN (IF castlingRights.wK /\ board[57] = Null /\ board[58] = Null
           /\ board[56] = "wR"
        THEN <<CastleMv(from, 58, "castleKing", 56, 57)>> ELSE <<>>)
       \o
       (IF castlingRights.wQ /\ board[59] = Null /\ board[60] = Null
           /\ board[61] = Null /\ board[63] = "wR"
        THEN <<CastleMv(from, 60, "castleQueen", 63, 61)>> ELSE <<>>)
  ELSE (IF castlingRights.bK /\ board[1] = Null /\ board[2] = Null
           /\ board[0] = "bR"
        THEN <<CastleMv(from, 2, "castleKing", 0, 1)>> ELSE <<>>)
       \o
       (IF castlingRights.bQ /\ board[5] = Null /\ board[6] = Null
           /\ board[7] = Null /\ board[7] = Null /\ board[3] = "bR"
        THEN <<CastleMv(from, 4, "castleQueen", 7, 5)>> ELSE <<>>)

GetPseudoMoves(board, from, castlingRights, enPassantTarget, color) ==
  LET piece == board[from] IN
  IF piece = Null \/ Color(piece) # color THEN <<>>
  ELSE CASE Type(piece) = "P" -> PawnMoves(board, from, enPassantTarget, color)
         [] Type(piece) = "N" -> StepAll(board, from, color, knightJumps)
         [] Type(piece) = "B" -> SlideAll(board, from, color, diagDirs)
         [] Type(piece) = "R" -> SlideAll(board, from, color, straightDirs)
         [] Type(piece) = "Q" -> SlideAll(board, from, color, allDirs)
         [] Type(piece) = "K" ->
              StepAll(board, from, color, allDirs)
                \o KingCaseCastling(board, from, castlingRights, color)

GetCastlingMoves(board, color, castlingRights) ==
  IF color = "w"
  THEN (IF castlingRights.wK /\ board[61] = Null /\ board[62] = Null
           /\ board[63] = "wR"
        THEN <<CastleMv(60, 62, "castleKing", 63, 61)>> ELSE <<>>)
       \o
       (IF castlingRights.wQ /\ board[57] = Null /\ board[58] = Null
           /\ board[59] = Null /\ board[56] = "wR"
        THEN <<CastleMv(60, 58, "castleQueen", 56, 59)>> ELSE <<>>)
  ELSE (IF castlingRights.bK /\ board[5] = Null /\ board[6] = Null
           /\ board[7] = "bR"
        THEN <<CastleMv(4, 6, "castleKing", 7, 5)>> ELSE <<>>)
       \o
       (IF castlingRights.bQ /\ board[1] = Null /\ board[2] = Null
           /\ board[3] = Null /\ board[0] = "bR"
        THEN <<CastleMv(4, 2, "castleQueen", 0, 3)>> ELSE <<>>)

GetAllPseudoMoves(board, color, castlingRights, enPassantTarget) ==
  Flatten([k \in 1..64 |->
             IF board[k - 1] # Null /\ Color(board[k - 1]) = color
             THEN GetPseudoMoves(board, k - 1, castlingRights, enPassantTarget, color)
             ELSE <<>>])
    \o GetCastlingMoves(board, color, castlingRights)

(***************************************************************************)
(* Is square attacked?                                                     *)
(***************************************************************************)
RECURSIVE RayHits(_, _, _, _, _, _, _)
\* march from (ar, af): TRUE iff the first occupied square holds a or b
RayHits(board, ar, af, dr, df, a, b) ==
  IF ~IsValid(ar, af) THEN FALSE
  ELSE LET p == board[Idx(ar, af)] IN
       IF p # Null THEN (p = a \/ p = b)
       ELSE RayHits(board, ar + dr, af + df, dr, df, a, b)

\* the attack test without its diagonal rays
IsAttackedNoDiagonal(board, sq, byColor) ==
  LET r == Row(sq)
      f == Col(sq)
      pawnDir == IF byColor = "w" THEN 1 ELSE -1
      P(t) == pieceTable[byColor][t]
  IN \/ \E df \in {-1, 1} :
          IsValid(r + pawnDir, f + df) /\ board[Idx(r + pawnDir, f + df)] = P("P")
     \/ \E k \in 1..8 :
          /\ IsValid(r + knightJumps[k][1], f + knightJumps[k][2])
          /\ board[Idx(r + knightJumps[k][1], f + knightJumps[k][2])] = P("N")
     \/ \E k \in 1..4 :
          RayHits(board, r + straightDirs[k][1], f + straightDirs[k][2],
                  straightDirs[k][1], straightDirs[k][2], P("R"), P("Q"))
     \/ \E k \in 1..8 :
          /\ IsValid(r + allDirs[k][1], f + allDirs[k][2])
          /\ board[Idx(r + allDirs[k][1], f + allDirs[k][2])] = P("K")

IsAttacked(board, sq, byColor) ==
  LET r == Row(sq)
      f == Col(sq)
      pawnDir == IF byColor = "w" THEN 1 ELSE -1
      P(t) == pieceTable[byColor][t]
  IN \/ \E df \in {-1, 1} :
          IsValid(r + pawnDir, f + df) /\ board[Idx(r + pawnDir, f + df)] = P("P")
     \/ \E k \in 1..8 :
          /\ IsValid(r + knightJumps[k][1], f + knightJumps[k][2])
          /\ board[Idx(r + knightJumps[k][1], f + knightJumps[k][2])] = P("N")
     \/ \E k \in 1..4 :
          RayHits(board, r + diagDirs[k][1], f + diagDirs[k][2],
                  diagDirs[k][1], diagDirs[k][2], P("B"), P("Q"))
     \/ \E k \in 1..4 :
          RayHits(board, r + straightDirs[k][1], f + straightDirs[k][2],
                  straightDirs[k][1], straightDirs[k][2], P("R"), P("Q"))
     \/ \E k \in 1..8 :
          /\ IsValid(r + allDirs[k][1], f + allDirs[k][2])
          /\ board[Idx(r + allDirs[k][1], f + allDirs[k][2])] = P("K")

IsInCheck(board, color) ==
  LET kingSq == FindKing(board, color) IN
  IF kingSq < 0 THEN FALSE ELSE IsAttacked(board, kingSq, Opp(color))

(***************************************************************************)
(* Apply a move to a board (returns a new board)                           *)
(***************************************************************************)
ApplyMoveToBoard(board, move) ==
  LET piece == board[move.from]
      b1 == [board EXCEPT ![move.to] =
               IF move.promoteTo # Null THEN move.promoteTo ELSE piece]
      b2 == [b1 EXCEPT ![move.from] = Null]
      b3 == IF move.type = "enPassant"
            THEN [b2 EXCEPT ![move.capturedSq] = Null] ELSE b2
      b4 == IF move.type = "castleKing" \/ move.type = "castleQueen"
            THEN [[b3 EXCEPT ![move.rookTo] = b3[move.rookFrom]]
                    EXCEPT ![move.rookFrom] = Null]
            ELSE b3
  IN b4

(***************************************************************************)
(* Legal move generation                                                   *)
(***************************************************************************)
IsLegal(board, move, color) ==
  /\ (move.type = "castleKing" \/ move.type = "castleQueen") =>
       /\ ~IsInCheck(board, color)
       /\ LET passSquares == IF move.type = "castleKing"
                             THEN {move.from + 1, move.from + 2}
                             ELSE {move.from - 1, move.from - 2}
          IN \A sq \in passSquares :
               ~IsAttacked(ApplyMoveToBoard(board, Mv(move.from, sq, "normal")),
                           sq, Opp(color))
  /\ ~IsInCheck(ApplyMoveToBoard(board, move), color)

LegalMovesOf(board, color, castlingRights, enPassantTarget) ==
  SelectSeq(GetAllPseudoMoves(board, color, castlingRights, enPassantTarget),
            LAMBDA m : IsLegal(board, m, color))

(***************************************************************************)
(* FEN generation.  A FEN string is modelled as the sequence of its        *)
(* space-separated fields, each field a sequence of characters.            *)
(***************************************************************************)
digitChars == <<"0", "1", "2", "3", "4", "5", "6", "7", "8", "9">>
fileChars == <<"a", "b", "c", "d", "e", "f", "g", "h">>

fenLetter ==
  [wP |-> "P", wR |-> "R", wN |-> "N", wB |-> "B", wQ |-> "Q", wK |-> "K",
   bP |-> "p", bR |-> "r", bN |-> "n", bB |-> "b", bQ |-> "q", bK |-> "k"]

RECURSIVE ToDec(_)
\* String(n) for a non-negative integer
ToDec(n) ==
  IF n < 10 THEN <<digitChars[n + 1]>>
  ELSE ToDec(n \div 10) \o <<digitChars[(n % 10) + 1]>>

SqToAlg(sq) == <<fileChars[Col(sq) + 1]>> \o ToDec(8 - Row(sq))

RECURSIVE FenRow(_, _, _, _)
FenRow(board, r, f, empty) ==
  IF f = 8 THEN (IF empty # 0 THEN ToDec(empty) ELSE <<>>)
  ELSE LET p == board[Idx(r, f)] IN
       IF p = Null THEN FenRow(board, r, f + 1, empty + 1)
       ELSE (IF empty # 0 THEN ToDec(empty) ELSE <<>>)
              \o <<fenLetter[p]>> \o FenRow(board, r, f + 1, 0)

FenPlacement(board) ==
  Flatten([r \in 1..8 |->
             FenRow(board, r - 1, 0, 0) \o (IF r - 1 < 7 THEN <<"/">> ELSE <<>>)])

FenCastling(cr) ==
  LET s == (IF cr.wK THEN <<"K">> ELSE <<>>) \o (IF cr.wQ THEN <<"Q">> ELSE <<>>)
             \o (IF cr.bK THEN <<"k">> ELSE <<>>) \o (IF cr.bQ THEN <<"q">> ELSE <<>>)
  IN IF s = <<>> THEN <<"-">> ELSE s

\* s: [board, turn, castlingRights, enPassantTarget, halfMoveClock, fullMoveNumber, ...]
ToFEN(s) ==
  << FenPlacement(s.board),
     <<s.turn>>,
     FenCastling(s.castlingRights),
     IF s.enPassantTarget # NoSq THEN SqToAlg(s.enPassantTarget) ELSE <<"-">>,
     ToDec(s.halfMoveClock),
     ToDec(s.fullMoveNumber) >>

\* toFEN().split(" ").slice(0, 4).join(" ")
FenCore(s) == SubSeq(ToFEN(s), 1, 4)

(***************************************************************************)
(* Position recording: positionMap is a JS object, kept here as the        *)
(* sequence of its (key, count) entries in insertion order.                *)
(***************************************************************************)
RecordPosition(positionMap, key) ==
  IF \E i \in 1..Len(positionMap) : positionMap[i].key = key
  THEN [i \in 1..Len(positionMap) |->
          IF positionMap[i].key = key
          THEN [positionMap[i] EXCEPT !.count = @ + 1]
          ELSE positionMap[i]]
  ELSE Append(positionMap, [key |-> key, count |-> 1])

\* the repetition test with the threshold one too low
IsThreefoldRepetitionAtTwo(positionMap) ==
  \E i \in 1..Len(positionMap) : positionMap[i].count >= 2

IsThreefoldRepetition(positionMap) ==
  \E i \in 1..Len(positionMap) : positionMap[i].count >= 3

(***************************************************************************)
(* Insufficient material                                                   *)
(***************************************************************************)
FirstIndexOf(board, p) ==
  LET hits == {i \in Squares : board[i] = p}
  IN IF hits = {} THEN NoSq ELSE CHOOSE i \in hits : \A j \in hits : i <= j

\* the material test without the comparison of the bishops' square colours
IsInsufficientMaterialAnyBishops(board) ==
  LET occ == {i \in Squares : board[i] # Null}
      whites == {i \in occ : Color(board[i]) = "w"}
      blacks == {i \in occ : Color(board[i]) = "b"}
      n == Cardinality(occ)
  IN \/ n = 2
     \/ n = 3 /\ \E i \in occ : Type(board[i]) = "N" \/ Type(board[i]) = "B"
     \/ /\ n = 4
        /\ Cardinality(whites) = 2 /\ Cardinality(blacks) = 2
        /\ \E i \in whites : board[i] = "wB"
        /\ \E i \in blacks : board[i] = "bB"

IsInsufficientMaterial(board) ==
  LET occ == {i \in Squares : board[i] # Null}
      whites == {i \in occ : Color(board[i]) = "w"}
      blacks == {i \in occ : Color(board[i]) = "b"}
      n == Cardinality(occ)
  IN \/ n = 2
     \/ n = 3 /\ \E i \in occ : Type(board[i]) = "N" \/ Type(board[i]) = "B"
     \/ /\ n = 4
        /\ Cardinality(whites) = 2 /\ Cardinality(blacks) = 2
        /\ \E i \in whites : board[i] = "wB"
        /\ \E i \in blacks : board[i] = "bB"
        /\ LET wbSq == FirstIndexOf(board, "wB")
               bbSq == FirstIndexOf(board, "bB")
           IN (Row(wbSq) + Col(wbSq)) % 2 = (Row(bbSq) + Col(bbSq)) % 2

(***************************************************************************)
(* FEN loading                                                             *)
(***************************************************************************)
letterPiece ==
  [P |-> "wP", R |-> "wR", N |-> "wN", B |-> "wB", Q |-> "wQ", K |-> "wK",
   p |-> "bP", r |-> "bR", n |-> "bN", b |-> "bB", q |-> "bQ", k |-> "bK"]

IsDigit(ch) == \E i \in 1..10 : digitChars[i] = ch
DigitVal(ch) == (CHOOSE i \in 1..10 : digitChars[i] = ch) - 1

RECURSIVE ParseDigits(_, _)
ParseDigits(chars, acc) ==
  IF chars = <<>> \/ ~IsDigit(Head(chars)) THEN acc
  ELSE ParseDigits(Tail(chars), acc * 10 + DigitVal(Head(chars)))

\* parseInt on a string that starts with a digit
ParseInt(chars) == ParseDigits(chars, 0)

\* String.prototype.split(sep): the pieces between the separators, in order;
\* cur is what has been collected of the first piece already
SplitOn(chars, sep, cur) ==
  LET n == Len(chars)
      seps == {i \in 1..n : chars[i] = sep}
      m == Cardinality(seps)
      cut(k) == IF k = 0 THEN 0
                ELSE IF k = m + 1 THEN n + 1
                ELSE CHOOSE p \in seps : Cardinality({j \in seps : j <= p}) = k
  IN [k \in 1..(m + 1) |->
        (IF k = 1 THEN cur ELSE <<>>) \o SubSeq(chars, cut(k - 1) + 1, cut(k) - 1)]

\* algToSq counting the rank from the top of the board
AlgToSqRankFromTop(alg) ==
  LET f == (CHOOSE i \in 1..8 : fileChars[i] = alg[1]) - 1
      r == ParseInt(<<alg[2]>>) - 1
  IN Idx(r, f)

AlgToSq(alg) ==
  LET f == (CHOOSE i \in 1..8 : fileChars[i] = alg[1]) - 1
      r == 8 - ParseInt(<<alg[2]>>)
  IN Idx(r, f)

\* the file index f when the k-th character of a rank is read: the files
\* the characters before it have covered (a digit its value, a letter one);
\* f is not tested against 8
FileAt(chars, k) ==
  Cardinality({ju \in (1..(k - 1)) \X (1..9) :
                 ju[2] <= (IF IsDigit(chars[ju[1]]) THEN DigitVal(chars[ju[1]]) ELSE 1)})

\* the assignments b[idx(r, f)] = piece that the loop over one rank makes
LoadRow(r, chars) ==
  {[idx |-> Idx(r, FileAt(chars, k)), piece |-> letterPiece[chars[k]], row |-> r] :
     k \in {j \in 1..Len(chars) : ~IsDigit(chars[j])}}

\* the array after the loops over the ranks from r on: of two assignments
\* to one cell the later rank's stays, and an assignment past the end
\* lengthens the array, the cells in between left empty
LoadRows(b, rows, r) ==
  LET writes == UNION {LoadRow(rr, rows[rr + 1]) : rr \in r..7}
      last == IF writes = {} THEN -1
              ELSE CHOOSE i \in {w.idx : w \in writes} : \A w \in writes : w.idx <= i
      Cell(i) ==
        IF \E w \in writes : w.idx = i
        THEN (CHOOSE w \in writes :
                w.idx = i /\ \A v \in writes : v.idx = i => v.row <= w.row).piece
        ELSE IF i \in DOMAIN b THEN b[i] ELSE Null
  IN [i \in (DOMAIN b) \cup (0..last) |-> Cell(i)]

LoadFENThrows(fen) ==
  \/ Len(fen) < 4
  \/ Len(SplitOn(fen[1], "/", <<>>)) # 8

\* the engine state after loadFEN(fen) returns true; s is the state before
LoadFEN(s, fen) ==
  LET rows == SplitOn(fen[1], "/", <<>>)
      cr == fen[3]
      Includes(ch) == \E i \in 1..Len(cr) : cr[i] = ch
      loaded ==
        [s EXCEPT
           !.board = LoadRows([i \in Squares |-> Null], rows, 0),
           !.turn = IF fen[2] = <<"b">> THEN "b" ELSE "w",
           !.castlingRights = [wK |-> Includes("K"), wQ |-> Includes("Q"),
                               bK |-> Includes("k"), bQ |-> Includes("q")],
           !.enPassantTarget = IF fen[4] = <<"-">> THEN NoSq ELSE AlgToSq(fen[4]),
           !.halfMoveClock = IF Len(fen) >= 5 THEN ParseInt(fen[5]) ELSE 0,
           !.fullMoveNumber = IF Len(fen) >= 6 THEN ParseInt(fen[6]) ELSE 1,
           !.positionMap = <<>>,
           !.moveHistory = <<>>,
           !.gameOver = FALSE,
           !.gameResult = NoResult]
  IN [loaded EXCEPT !.positionMap = RecordPosition(<<>>, FenCore(loaded))]

(***************************************************************************)
(* FENManager.  Here a FEN string is the sequence of its characters:       *)
(* toFEN joins the fields with single spaces, import trims the string and  *)
(* splits it on runs of spaces.                                            *)
(***************************************************************************)
RECURSIVE JoinFields(_)
\* toFEN: fen += " " + field
JoinFields(fields) ==
  IF fields = <<>> THEN <<>>
  ELSE IF Len(fields) = 1 THEN fields[1]
  ELSE fields[1] \o <<" ">> \o JoinFields(Tail(fields))

\* FENManager.export(engine): engine.toFEN()
FENExport(s) == JoinFields(ToFEN(s))

\* fen.trim().split(/\s+/): the non-empty pieces between spaces (for a string
\* of spaces only JS yields one empty piece; either way fewer than 4 parts)
TrimSplit(str) == SelectSeq(SplitOn(str, " ", <<>>), LAMBDA part : part # <<>>)

pieceLetters == {"p", "n", "b", "r", "q", "k", "P", "N", "B", "R", "Q", "K"}
rankDigits == {"1", "2", "3", "4", "5", "6", "7", "8"}

RECURSIVE RankCount(_)
\* validate: the squares a rank string covers, -1 for an invalid character
RankCount(row) ==
  IF row = <<>> THEN 0
  ELSE IF Head(row) \notin rankDigits \union pieceLetters THEN -1
  ELSE LET rest == RankCount(Tail(row)) IN
       IF rest = -1 THEN -1
       ELSE rest + (IF Head(row) \in rankDigits THEN DigitVal(Head(row)) ELSE 1)

\* FENManager.validate(fen) throws
ValidateThrows(str) ==
  LET parts == TrimSplit(str) IN
  \/ Len(parts) < 4
  \/ LET rows == SplitOn(parts[1], "/", <<>>) IN
       \/ Len(rows) # 8
       \/ \E r \in 1..Len(rows) : RankCount(rows[r]) # 8
  \/ parts[2] # <<"w">> /\ parts[2] # <<"b">>
  \/ ~(/\ Len(parts[3]) \in 1..4
       /\ \A i \in 1..Len(parts[3]) : parts[3][i] \in {"K", "Q", "k", "q", "-"})
  \/ /\ parts[4] # <<"-">>
     /\ ~(/\ Len(parts[4]) = 2
          /\ \E i \in 1..8 : fileChars[i] = parts[4][1]
          /\ parts[4][2] \in {"3", "6"})

\* FENManager.import(engine, fen) throws: empty input, validate or loadFEN
FENImportThrows(str) ==
  \/ str = <<>>
  \/ ValidateThrows(str)
  \/ LoadFENThrows(TrimSplit(str))

\* the engine state after FENManager.import(engine, fen) returns true
FENImport(s, str) == LoadFEN(s, TrimSplit(str))

(***************************************************************************)
(* reset()                                                                 *)
(***************************************************************************)
ResetState ==
  LET fresh == [board |-> StartBoard, turn |-> "w", moveHistory |-> <<>>,
                castlingRights |-> StartRights, enPassantTarget |-> NoSq,
                halfMoveClock |-> 0, fullMoveNumber |-> 1, positionMap |-> <<>>,
                gameOver |-> FALSE, gameResult |-> NoResult]
  IN [fresh EXCEPT !.positionMap = RecordPosition(<<>>, FenCore(fresh))]

(***************************************************************************)
(* SAN notation (evaluated by makeMove after the board has been updated)   *)
(***************************************************************************)
GetAmbiguous(s, move, piece) ==
  LET color == Color(piece)
      allMoves ==
        SelectSeq(GetAllPseudoMoves(s.board, color, s.castlingRights, s.enPassantTarget),
                  LAMBDA m : m.to = move.to /\ s.board[m.from] = piece
                             /\ m.from # move.from)
      sameFile == \E i \in 1..Len(allMoves) : Col(allMoves[i].from) = Col(move.from)
      sameRank == \E i \in 1..Len(allMoves) : Row(allMoves[i].from) = Row(move.from)
  IN IF Len(allMoves) = 0 THEN <<>>
     ELSE IF ~sameFile THEN <<fileChars[Col(move.from) + 1]>>
     ELSE IF ~sameRank THEN ToDec(8 - Row(move.from))
     ELSE SqToAlg(move.from)

ToSAN(s, move, piece, captured) ==
  LET type == Type(piece)
      toAlg == SqToAlg(move.to)
  IN IF move.type = "castleKing" THEN <<"O", "-", "O">>
     ELSE IF move.type = "castleQueen" THEN <<"O", "-", "O", "-", "O">>
     ELSE IF type = "P"
     THEN (IF captured # Null \/ move.type = "enPassant"
           THEN <<SqToAlg(move.from)[1], "x">> \o toAlg
           ELSE toAlg)
          \o (IF move.promoteTo # Null THEN <<"=", Type(move.promoteTo)>> ELSE <<>>)
     ELSE <<type>> \o GetAmbiguous(s, move, piece)
            \o (IF captured # Null THEN <<"x">> ELSE <<>>) \o toAlg

(***************************************************************************)
(* makeMove(move)                                                          *)
(***************************************************************************)
GetLegalMoves(s, fromSq) ==
  SelectSeq(GetAllPseudoMoves(s.board, s.turn, s.castlingRights, s.enPassantTarget),
            LAMBDA m : m.from = fromSq /\ IsLegal(s.board, m, s.turn))

GetAllLegalMoves(s) ==
  LegalMovesOf(s.board, s.turn, s.castlingRights, s.enPassantTarget)

\* the predicate of legal.find(...) in makeMove
\* the find predicate without its comparison of the target square
MatchesFromOnly(m, move) ==
  /\ m.from = move.from
  /\ (move.promoteTo = Null \/ m.promoteTo = move.promoteTo)

Matches(m, move) ==
  /\ m.from = move.from
  /\ m.to = move.to
  /\ (move.promoteTo = Null \/ m.promoteTo = move.promoteTo)

\* legal.find(...): the first match, as a sequence of length 0 or 1
FindMove(s, move) ==
  LET hits == SelectSeq(GetLegalMoves(s, move.from), LAMBDA m : Matches(m, move))
  IN IF hits = <<>> THEN <<>> ELSE <<Head(hits)>>

\* the rejection test without the gameOver guard
MakeMoveRejectsOnlyIllegal(s, move) == FindMove(s, move) = <<>>

MakeMoveRejects(s, move) == s.gameOver \/ FindMove(s, move) = <<>>

\* the en-passant target taken ahead of the pawn instead of behind it
NextEnPassantAhead(found, color) ==
  IF found.type = "doublePush"
  THEN found.to - (IF color = "w" THEN 1 ELSE -1) * 8
  ELSE NoSq

NextEnPassant(found, color) ==
  IF found.type = "doublePush"
  THEN found.to + (IF color = "w" THEN 1 ELSE -1) * 8
  ELSE NoSq

\* the rights update without the rook case
NextRightsKingOnly(cr, found, type, color) ==
  IF type = "K"
  THEN IF color = "w" THEN [cr EXCEPT !.wK = FALSE, !.wQ = FALSE]
       ELSE [cr EXCEPT !.bK = FALSE, !.bQ = FALSE]
  ELSE cr

NextRights(cr, found, type, color) ==
  LET afterKing ==
        IF type = "K"
        THEN IF color = "w" THEN [cr EXCEPT !.wK = FALSE, !.wQ = FALSE]
             ELSE [cr EXCEPT !.bK = FALSE, !.bQ = FALSE]
        ELSE cr
  IN IF type = "R"
     THEN [afterKing EXCEPT
             !.wQ = IF found.from = 56 THEN FALSE ELSE @,
             !.wK = IF found.from = 63 THEN FALSE ELSE @,
             !.bQ = IF found.from = 0 THEN FALSE ELSE @,
             !.bK = IF found.from = 7 THEN FALSE ELSE @]
     ELSE afterKing

NextHalfMoveClock(hmc, found, type, captured) ==
  IF type = "P" \/ captured # Null \/ found.type = "enPassant" THEN 0 ELSE hmc + 1

\* _checkGameEnd naming the side to move as the winner
CheckGameEndWinnerToMove(s, lastMove) ==
  IF lastMove.isMate
  THEN [s EXCEPT !.gameOver = TRUE,
                 !.gameResult = [winner |-> s.turn, reason |-> "checkmate"]]
  ELSE IF lastMove.isStalemate
  THEN [s EXCEPT !.gameOver = TRUE,
                 !.gameResult = [winner |-> Null, reason |-> "stalemate"]]
  ELSE IF s.halfMoveClock >= 100
  THEN [s EXCEPT !.gameOver = TRUE,
                 !.gameResult = [winner |-> Null, reason |-> "50-move rule"]]
  ELSE IF IsThreefoldRepetition(s.positionMap)
  THEN [s EXCEPT !.gameOver = TRUE,
                 !.gameResult = [winner |-> Null, reason |-> "threefold repetition"]]
  ELSE IF IsInsufficientMaterial(s.board)
  THEN [s EXCEPT !.gameOver = TRUE,
                 !.gameResult = [winner |-> Null, reason |-> "insufficient material"]]
  ELSE s

\* _checkGameEnd without its stalemate branch
CheckGameEndNoStalemate(s, lastMove) ==
  IF lastMove.isMate
  THEN [s EXCEPT !.gameOver = TRUE,
                 !.gameResult = [winner |-> Opp(s.turn), reason |-> "checkmate"]]
  ELSE IF s.halfMoveClock >= 100
  THEN [s EXCEPT !.gameOver = TRUE,
                 !.gameResult = [winner |-> Null, reason |-> "50-move rule"]]
  ELSE IF IsThreefoldRepetition(s.positionMap)
  THEN [s EXCEPT !.gameOver = TRUE,
                 !.gameResult = [winner |-> Null, reason |-> "threefold repetition"]]
  ELSE IF IsInsufficientMaterial(s.board)
  THEN [s EXCEPT !.gameOver = TRUE,
                 !.gameResult = [winner |-> Null, reason |-> "insufficient material"]]
  ELSE s

\* _checkGameEnd comparing the clock with > instead of >=
CheckGameEndClockOver100(s, lastMove) ==
  IF lastMove.isMate
  THEN [s EXCEPT !.gameOver = TRUE,
                 !.gameResult = [winner |-> Opp(s.turn), reason |-> "checkmate"]]
  ELSE IF lastMove.isStalemate
  THEN [s EXCEPT !.gameOver = TRUE,
                 !.gameResult = [winner |-> Null, reason |-> "stalemate"]]
  ELSE IF s.halfMoveClock > 100
  THEN [s EXCEPT !.gameOver = TRUE,
                 !.gameResult = [winner |-> Null, reason |-> "50-move rule"]]
  ELSE IF IsThreefoldRepetition(s.positionMap)
  THEN [s EXCEPT !.gameOver = TRUE,
                 !.gameResult = [winner |-> Null, reason |-> "threefold repetition"]]
  ELSE IF IsInsufficientMaterial(s.board)
  THEN [s EXCEPT !.gameOver = TRUE,
                 !.gameResult = [winner |-> Null, reason |-> "insufficient material"]]
  ELSE s

\* _checkGameEnd testing the repetition before the clock
CheckGameEndRepetitionFirst(s, lastMove) ==
  IF lastMove.isMate
  THEN [s EXCEPT !.gameOver = TRUE,
                 !.gameResult = [winner |-> Opp(s.turn), reason |-> "checkmate"]]
  ELSE IF lastMove.isStalemate
  THEN [s EXCEPT !.gameOver = TRUE,
                 !.gameResult = [winner |-> Null, reason |-> "stalemate"]]
  ELSE IF IsThreefoldRepetition(s.positionMap)
  THEN [s EXCEPT !.gameOver = TRUE,
                 !.gameResult = [winner |-> Null, reason |-> "threefold repetition"]]
  ELSE IF s.halfMoveClock >= 100
  THEN [s EXCEPT !.gameOver = TRUE,
                 !.gameResult = [winner |-> Null, reason |-> "50-move rule"]]
  ELSE IF IsInsufficientMaterial(s.board)
  THEN [s EXCEPT !.gameOver = TRUE,
                 !.gameResult = [winner |-> Null, reason |-> "insufficient material"]]
  ELSE s

\* _checkGameEnd: the first end condition that holds, in the source's order
CheckGameEnd(s, lastMove) ==
  IF lastMove.isMate
  THEN [s EXCEPT !.gameOver = TRUE,
                 !.gameResult = [winner |-> Opp(s.turn), reason |-> "checkmate"]]
  ELSE IF lastMove.isStalemate
  THEN [s EXCEPT !.gameOver = TRUE,
                 !.gameResult = [winner |-> Null, reason |-> "stalemate"]]
  ELSE IF s.halfMoveClock >= 100
  THEN [s EXCEPT !.gameOver = TRUE,
                 !.gameResult = [winner |-> Null, reason |-> "50-move rule"]]
  ELSE IF IsThreefoldRepetition(s.positionMap)
  THEN [s EXCEPT !.gameOver = TRUE,
                 !.gameResult = [winner |-> Null, reason |-> "threefold repetition"]]
  ELSE IF IsInsufficientMaterial(s.board)
  THEN [s EXCEPT !.gameOver = TRUE,
                 !.gameResult = [winner |-> Null, reason |-> "insufficient material"]]
  ELSE s

\* the state and the MoveRecord after committing the legal move found
Commit(s, found) ==
  LET piece == s.board[found.from]
      captured == s.board[found.to]
      color == Color(piece)
      type == Type(piece)
      s1 == [s EXCEPT
               !.board = ApplyMoveToBoard(s.board, found),
               !.enPassantTarget = NextEnPassant(found, color),
               !.castlingRights = NextRights(s.castlingRights, found, type, color),
               !.halfMoveClock = NextHalfMoveClock(s.halfMoveClock, found, type, captured),
               !.fullMoveNumber = IF color = "b" THEN @ + 1 ELSE @]
      san == ToSAN(s1, found, piece, captured)
      fen == ToFEN(s1)
      s2 == [s1 EXCEPT !.turn = Opp(color)]
      isCheck == IsInCheck(s2.board, s2.turn)
      noMoves == Len(GetAllLegalMoves(s2)) = 0
      isMate == isCheck /\ noMoves
      isStalemate == ~isCheck /\ noMoves
      moveRecord ==
        [from |-> found.from, to |-> found.to, type |-> found.type,
         promoteTo |-> found.promoteTo, rookFrom |-> found.rookFrom,
         rookTo |-> found.rookTo, capturedSq |-> found.capturedSq,
         piece |-> piece, captured |-> captured,
         san |-> san \o (IF isCheck THEN (IF isMate THEN <<"#">> ELSE <<"+">>) ELSE <<>>),
         fen |-> fen,
         castlingRights |-> s1.castlingRights,
         enPassantTarget |-> s1.enPassantTarget,
         isCheck |-> isCheck, isMate |-> isMate, isStalemate |-> isStalemate]
      s3 == [s2 EXCEPT !.moveHistory = Append(@, moveRecord)]
      s4 == [s3 EXCEPT !.positionMap = RecordPosition(@, FenCore(s3))]
  IN [s |-> CheckGameEnd(s4, moveRecord), ret |-> <<moveRecord>>]

\* makeMove(move): ret is <<>> for false, <<moveRecord>> otherwise
MakeMove(s, move) ==
  IF MakeMoveRejects(s, move) THEN [s |-> s, ret |-> <<>>]
  ELSE Commit(s, Head(FindMove(s, move)))

(***************************************************************************)
(* undoMove()                                                              *)
(***************************************************************************)
\* Object.keys(positionMap).pop(), then decrement and delete at zero
UnrecordLast(positionMap) ==
  LET n == Len(positionMap) IN
  IF n = 0 THEN positionMap
  ELSE IF positionMap[n].count - 1 <= 0 THEN SubSeq(positionMap, 1, n - 1)
  ELSE [positionMap EXCEPT ![n].count = @ - 1]

\* undoMove without its early return: an empty move list falls through to reset()
UndoMoveNoEarlyReturn(s) ==
  LET n == Len(s.moveHistory)
      popped == [s EXCEPT !.moveHistory = SubSeq(@, 1, n - 1),
                          !.positionMap = UnrecordLast(@)]
      rebuilt ==
        IF Len(popped.moveHistory) > 0
        THEN [LoadFEN(popped, popped.moveHistory[n - 1].fen)
                EXCEPT !.turn = Opp(Color(s.moveHistory[n].piece))]
        ELSE [ResetState EXCEPT !.moveHistory = <<>>]
  IN [s |-> [rebuilt EXCEPT !.gameOver = FALSE, !.gameResult = NoResult],
      ret |-> IF n = 0 THEN <<>> ELSE <<s.moveHistory[n]>>]

UndoMove(s) ==
  IF Len(s.moveHistory) = 0 THEN [s |-> s, ret |-> <<>>]
  ELSE LET n == Len(s.moveHistory)
           last == s.moveHistory[n]
           popped == [s EXCEPT !.moveHistory = SubSeq(@, 1, n - 1),
                               !.positionMap = UnrecordLast(@)]
           rebuilt ==
             IF Len(popped.moveHistory) > 0
             THEN [LoadFEN(popped, popped.moveHistory[n - 1].fen)
                     EXCEPT !.turn = Opp(Color(last.piece))]
             ELSE [ResetState EXCEPT !.moveHistory = <<>>]
       IN [s |-> [rebuilt EXCEPT !.gameOver = FALSE, !.gameResult = NoResult],
           ret |-> <<last>>]

(***************************************************************************)
(* Evaluation.  Scores are kept multiplied by 10, so that the mobility     *)
(* term (wMoves - bMoves) * 0.1 stays an integer; the order of any two     *)
(* scores is unchanged by that.                                            *)
(***************************************************************************)
PIECE_VALUES == [P |-> 100, N |-> 320, B |-> 330, R |-> 500, Q |-> 900, K |-> 20000]

\* piece-square tables, from White's side (index 0 is a8)
PST ==
  [P |->
    <<
      0, 0, 0, 0, 0, 0, 0, 0,
      50, 50, 50, 50, 50, 50, 50, 50,
      10, 10, 20, 30, 30, 20, 10, 10,
      5, 5, 10, 25, 25, 10, 5, 5,
      0, 0, 0, 20, 20, 0, 0, 0,
      5, -5, -10, 0, 0, -10, -5, 5,
      5, 10, 10, -20, -20, 10, 10, 5,
      0, 0, 0, 0, 0, 0, 0, 0 >>,
   N |->
    <<
      -50, -40, -30, -30, -30, -30, -40, -50,
      -40, -20, 0, 0, 0, 0, -20, -40,
      -30, 0, 10, 15, 15, 10, 0, -30,
      -30, 5, 15, 20, 20, 15, 5, -30,
      -30, 0, 15, 20, 20, 15, 0, -30,
      -30, 5, 10, 15, 15, 10, 5, -30,
      -40, -20, 0, 5, 5, 0, -20, -40,
      -50, -40, -30, -30, -30, -30, -40, -50 >>,
   B |->
    <<
      -20, -10, -10, -10, -10, -10, -10, -20,
      -10, 0, 0, 0, 0, 0, 0, -10,
      -10, 0, 5, 10, 10, 5, 0, -10,
      -10, 5, 5, 10, 10, 5, 5, -10,
      -10, 0, 10, 10, 10, 10, 0, -10,
      -10, 10, 10, 10, 10, 10, 10, -10,
      -10, 5, 0, 0, 0, 0, 5, -10,
      -20, -10, -10, -10, -10, -10, -10, -20 >>,
   R |->
    <<
      0, 0, 0, 0, 0, 0, 0, 0,
      5, 10, 10, 10, 10, 10, 10, 5,
      -5, 0, 0, 0, 0, 0, 0, -5,
      -5, 0, 0, 0, 0, 0, 0, -5,
      -5, 0, 0, 0, 0, 0, 0, -5,
      -5, 0, 0, 0, 0, 0, 0, -5,
      -5, 0, 0, 0, 0, 0, 0, -5,
      0, 0, 0, 5, 5, 0, 0, 0 >>,
   Q |->
    <<
      -20, -10, -10, -5, -5, -10, -10, -20,
      -10, 0, 0, 0, 0, 0, 0, -10,
      -10, 0, 5, 5, 5, 5, 0, -10,
      -5, 0, 5, 5, 5, 5, 0, -5,
      0, 0, 5, 5, 5, 5, 0, -5,
      -10, 5, 5, 5, 5, 5, 0, -10,
      -10, 0, 5, 0, 0, 0, 0, -10,
      -20, -10, -10, -5, -5, -10, -10, -20 >>,
   K |->
    <<
      -30, -40, -40, -50, -50, -40, -40, -30,
      -30, -40, -40, -50, -50, -40, -40, -30,
      -30, -40, -40, -50, -50, -40, -40, -30,
      -30, -40, -40, -50, -50, -40, -40, -30,
      -20, -30, -30, -40, -40, -30, -30, -20,
      -10, -20, -20, -20, -20, -20, -20, -10,
      20, 20, 0, 0, 0, 0, 20, 20,
      20, 30, 10, 0, 0, 10, 30, 20 >>,
   K_END |->
    <<
      -50, -40, -30, -20, -20, -30, -40, -50,
      -30, -20, -10, 0, 0, -10, -20, -30,
      -30, -10, 20, 30, 30, 20, -10, -30,
      -30, -10, 30, 40, 40, 30, -10, -30,
      -30, -10, 30, 40, 40, 30, -10, -30,
      -30, -10, 20, 30, 30, 20, -10, -30,
      -30, -30, 0, 0, 0, 0, -30, -30,
      -50, -30, -30, -30, -30, -30, -30, -50 >>]

RECURSIVE SumFn(_, _, _)
\* the sum of fn[lo..hi]
SumFn(fn, lo, hi) ==
  IF lo > hi THEN 0
  ELSE IF lo = hi THEN fn[lo]
  ELSE LET mid == (lo + hi) \div 2
       IN SumFn(fn, lo, mid) + SumFn(fn, mid + 1, hi)

\* evaluate(), times 10
Evaluate(s) ==
  IF s.gameResult # NoResult
  THEN (IF s.gameResult.winner = Null THEN 0
        ELSE IF s.gameResult.winner = "w" THEN 999990 ELSE -999990)
  ELSE
    LET pieces == s.board
        totalMat ==
          SumFn([i \in Squares |->
                   IF pieces[i] = Null THEN 0 ELSE PIECE_VALUES[Type(pieces[i])]],
                0, 63)
        isEndgame == totalMat < 1500
        term(i) ==
          LET p == pieces[i]
              color == Color(p)
              type == Type(p)
              val == PIECE_VALUES[type]
              tableKey == IF type = "K" /\ isEndgame THEN "K_END" ELSE type
              idx == IF color = "w" THEN i ELSE 56 - (i \div 8) * 8 + (i % 8)
              pst == PST[tableKey][(IF idx < 63 THEN idx ELSE 63) + 1]
          IN (IF color = "w" THEN 1 ELSE -1) * (val + pst)
        score == SumFn([i \in Squares |-> IF pieces[i] = Null THEN 0 ELSE term(i)], 0, 63)
        wMoves == Len(GetAllPseudoMoves(s.board, "w", s.castlingRights, s.enPassantTarget))
        bMoves == Len(GetAllPseudoMoves(s.board, "b", s.castlingRights, s.enPassantTarget))
    IN 10 * score + (wMoves - bMoves)

(***************************************************************************)
(* applyMoveFull(move): the move applied without checks (used by the       *)
(* search); the clocks, the move list and the position history stay.       *)
(***************************************************************************)
ApplyMoveFull(s, move) ==
  LET piece == s.board[move.from]
      color == Color(piece)
      type == Type(piece)
  IN [s EXCEPT
        !.board = ApplyMoveToBoard(s.board, move),
        !.enPassantTarget =
          IF move.type = "doublePush"
          THEN move.to + (IF color = "w" THEN 1 ELSE -1) * 8
          ELSE NoSq,
        !.castlingRights =
          LET afterKing ==
                IF type = "K"
                THEN IF color = "w" THEN [@ EXCEPT !.wK = FALSE, !.wQ = FALSE]
                     ELSE [@ EXCEPT !.bK = FALSE, !.bQ = FALSE]
                ELSE @
          IN IF type = "R"
             THEN [afterKing EXCEPT
                     !.wQ = IF move.from = 56 THEN FALSE ELSE @,
                     !.wK = IF move.from = 63 THEN FALSE ELSE @,
                     !.bQ = IF move.from = 0 THEN FALSE ELSE @,
                     !.bK = IF move.from = 7 THEN FALSE ELSE @]
             ELSE afterKing,
        !.turn = Opp(color)]

(***************************************************************************)
(* ChessAI: minimax with alpha-beta pruning.  Every search operator        *)
(* returns the score together with the number of _minimax calls made       *)
(* (ChessAI.nodes) and the engine as the search leaves it.                 *)
(***************************************************************************)
\* Infinity and -Infinity: beyond every score the search can produce
Infinity == 1000000000

Max(a, b) == IF a >= b THEN a ELSE b
Min(a, b) == IF a <= b THEN a ELSE b

\* _saveState with the copy of the castling rights left out
SaveStateNoRights(s) ==
  [board |-> s.board, turn |-> s.turn,
   castlingRights |-> [wK |-> FALSE, wQ |-> FALSE, bK |-> FALSE, bQ |-> FALSE],
   enPassantTarget |-> s.enPassantTarget, halfMoveClock |-> s.halfMoveClock,
   fullMoveNumber |-> s.fullMoveNumber, gameOver |-> s.gameOver,
   gameResult |-> s.gameResult]

\* _saveState(engine): the board and the castling rights are copies, so the
\* in-place updates of applyMoveFull do not reach the snapshot
SaveState(s) ==
  [board |-> s.board, turn |-> s.turn, castlingRights |-> s.castlingRights,
   enPassantTarget |-> s.enPassantTarget, halfMoveClock |-> s.halfMoveClock,
   fullMoveNumber |-> s.fullMoveNumber, gameOver |-> s.gameOver,
   gameResult |-> s.gameResult]

\* _restoreState(engine, state)
RestoreState(s, state) ==
  [s EXCEPT
     !.board = state.board,
     !.turn = state.turn,
     !.castlingRights = state.castlingRights,
     !.enPassantTarget = state.enPassantTarget,
     !.halfMoveClock = state.halfMoveClock,
     !.fullMoveNumber = state.fullMoveNumber,
     !.gameOver = state.gameOver,
     !.gameResult = state.gameResult]

\* _moveOrderScore(engine, move)
MoveOrderScore(s, move) ==
  LET captured == s.board[move.to]
  IN (IF captured # Null
      THEN 10 * PIECE_VALUES[Type(captured)] - PIECE_VALUES[Type(s.board[move.from])]
      ELSE 0)
     + (IF move.promoteTo # Null THEN PIECE_VALUES[Type(move.promoteTo)] ELSE 0)
     + (IF move.type = "enPassant" THEN 100 ELSE 0)

RECURSIVE SortByKeys(_, _, _)
\* moves.sort((a, b) => key(b) - key(a)): stable, highest key first
SortByKeys(moves, keys, vals) ==
  IF vals = {} THEN <<>>
  ELSE LET v == CHOOSE x \in vals : \A y \in vals : y <= x
           idxs == SelectSeq([i \in 1..Len(moves) |-> i], LAMBDA i : keys[i] = v)
       IN [j \in 1..Len(idxs) |-> moves[idxs[j]]] \o SortByKeys(moves, keys, vals \ {v})

OrderMoves(s, moves) ==
  LET keys == [i \in 1..Len(moves) |-> MoveOrderScore(s, moves[i])]
  IN SortByKeys(moves, keys, {keys[i] : i \in 1..Len(moves)})

RECURSIVE Minimax(_, _, _, _, _)
RECURSIVE MinimaxLoop(_, _, _, _, _, _)

(* The for loop of _minimax is a fold over the ordered moves.  What it     *)
(* carries from one pass to the next is acc: best, the window alpha and    *)
(* beta, the count of nodes, the engine, and cut, set by the break.        *)

\* one pass of the loop with the cutoff test reversed (alpha <= beta)
MinimaxStepCutoffReversed(acc, saved, isMaximizing, r) ==
  LET best2 == IF isMaximizing THEN Max(acc.best, r.score) ELSE Min(acc.best, r.score)
      alpha2 == IF isMaximizing THEN Max(acc.alpha, best2) ELSE acc.alpha
      beta2 == IF isMaximizing THEN acc.beta ELSE Min(acc.beta, best2)
  IN [best |-> best2, alpha |-> alpha2, beta |-> beta2, nodes |-> acc.nodes + r.nodes,
      eng |-> RestoreState(r.eng, saved), cut |-> alpha2 <= beta2]

\* one pass of the for loop of _minimax once the recursive call on the move
\* has returned r: restore, update best and the window, break on
\* beta <= alpha
MinimaxStep(acc, saved, isMaximizing, r) ==
  LET best2 == IF isMaximizing THEN Max(acc.best, r.score) ELSE Min(acc.best, r.score)
      alpha2 == IF isMaximizing THEN Max(acc.alpha, best2) ELSE acc.alpha
      beta2 == IF isMaximizing THEN acc.beta ELSE Min(acc.beta, best2)
  IN [best |-> best2, alpha |-> alpha2, beta |-> beta2, nodes |-> acc.nodes + r.nodes,
      eng |-> RestoreState(r.eng, saved), cut |-> beta2 <= alpha2]

\* one pass of the loop: save, apply, recurse, then the step above
MinimaxPass(acc, move, depth, isMaximizing) ==
  MinimaxStep(acc, SaveState(acc.eng), isMaximizing,
              Minimax(ApplyMoveFull(acc.eng, move), depth - 1, acc.alpha, acc.beta,
                      ~isMaximizing))

\* the passes over moves[lo..hi] in order, none after the break; the range
\* is halved so that the nesting stays shallow
MinimaxLoop(acc, moves, lo, hi, depth, isMaximizing) ==
  IF acc.cut \/ lo >= hi
  THEN (IF acc.cut \/ lo > hi THEN acc
        ELSE MinimaxPass(acc, moves[lo], depth, isMaximizing))
  ELSE MinimaxLoop(MinimaxLoop(acc, moves, lo, (lo + hi) \div 2, depth, isMaximizing),
                   moves, (lo + hi) \div 2 + 1, hi, depth, isMaximizing)

\* return best, with the nodes counted and the engine as the loop left it
MinimaxResult(acc) == [score |-> acc.best, nodes |-> acc.nodes, eng |-> acc.eng]

\* _minimax below the depth test with a mate score that leaves the
\* remaining depth out
MinimaxMovesFlatMate(s, moves, depth, alpha, beta, isMaximizing) ==
  IF Len(moves) = 0
  THEN [score |-> IF IsInCheck(s.board, s.turn)
                  THEN (IF isMaximizing THEN -99999 * 10 ELSE 99999 * 10)
                  ELSE 0,
        nodes |-> 1, eng |-> s]
  ELSE MinimaxResult(
         MinimaxLoop([best |-> IF isMaximizing THEN -Infinity ELSE Infinity,
                      alpha |-> alpha, beta |-> beta, nodes |-> 1, eng |-> s,
                      cut |-> FALSE],
                     OrderMoves(s, moves), 1, Len(moves), depth, isMaximizing))

\* _minimax below the depth test, with moves = engine.getAllLegalMoves()
MinimaxMoves(s, moves, depth, alpha, beta, isMaximizing) ==
  IF Len(moves) = 0
  THEN [score |-> IF IsInCheck(s.board, s.turn)
                  THEN (IF isMaximizing THEN -(99999 + depth) * 10
                        ELSE (99999 + depth) * 10)
                  ELSE 0,
        nodes |-> 1, eng |-> s]
  ELSE MinimaxResult(
         MinimaxLoop([best |-> IF isMaximizing THEN -Infinity ELSE Infinity,
                      alpha |-> alpha, beta |-> beta, nodes |-> 1, eng |-> s,
                      cut |-> FALSE],
                     OrderMoves(s, moves), 1, Len(moves), depth, isMaximizing))

\* _minimax(engine, depth, alpha, beta, isMaximizing)
Minimax(s, depth, alpha, beta, isMaximizing) ==
  IF depth = 0 \/ s.gameOver THEN [score |-> Evaluate(s), nodes |-> 1, eng |-> s]
  ELSE MinimaxMoves(s, GetAllLegalMoves(s), depth, alpha, beta, isMaximizing)

RECURSIVE RootLoop(_, _, _, _, _)
\* one pass of the for loop of getBestMove once _minimax has returned r;
\* acc carries the scores so far, the count of nodes, the engine and
\* stopped = !this.running, which nothing sets while the loop runs
RootStep(acc, savedState, r) ==
  [scores |-> Append(acc.scores, r.score), nodes |-> acc.nodes + r.nodes,
   eng |-> RestoreState(r.eng, savedState), stopped |-> acc.stopped]

\* one pass of the loop: save, apply, search with the full window
RootPass(acc, move, maxDepth) ==
  RootStep(acc, SaveState(acc.eng),
           Minimax(ApplyMoveFull(acc.eng, move), maxDepth - 1, -Infinity, Infinity,
                   ~(acc.eng.turn = "w")))

\* the for loop of getBestMove over moves[lo..hi] in order, each pass after
\* the test of this.running: the score of every root move; the range is
\* halved so that the nesting stays shallow
RootLoop(acc, moves, lo, hi, maxDepth) ==
  IF acc.stopped \/ lo >= hi
  THEN (IF acc.stopped \/ lo > hi THEN acc
        ELSE RootPass(acc, moves[lo], maxDepth))
  ELSE RootLoop(RootLoop(acc, moves, lo, (lo + hi) \div 2, maxDepth),
                moves, (lo + hi) \div 2 + 1, hi, maxDepth)

\* the choice of getBestMove with bestScore starting from 0, not from
\* -Infinity or Infinity: no move is kept unless its score is beyond 0
PickBestFromZero(s, moves, r) ==
  LET isMaximizing == s.turn = "w"
      idx == {i \in 1..Len(moves) :
                IF isMaximizing THEN r.scores[i] > 0 ELSE r.scores[i] < 0}
      top == {i \in idx : \A j \in idx : IF isMaximizing THEN r.scores[j] <= r.scores[i]
                                         ELSE r.scores[j] >= r.scores[i]}
      captures == {i \in top : s.board[moves[i].to] # Null}
  IN [started |-> TRUE, nodes |-> r.nodes, eng |-> r.eng,
      best |-> {moves[i] : i \in (IF captures # {} THEN captures ELSE top)}]

\* the result of getBestMove from the scores r of the root moves: the moves
\* are shuffled and then sorted captures first, so the first move reaching
\* the best score is any capture that reaches it or, when no capture does,
\* any move that reaches it
PickBest(s, moves, r) ==
  LET isMaximizing == s.turn = "w"
      idx == 1..Len(moves)
      bestScore ==
        CHOOSE x \in {r.scores[i] : i \in idx} :
          \A i \in idx : IF isMaximizing THEN r.scores[i] <= x
                         ELSE r.scores[i] >= x
      top == {i \in idx : r.scores[i] = bestScore}
      captures == {i \in top : s.board[moves[i].to] # Null}
  IN [started |-> TRUE, nodes |-> r.nodes, eng |-> r.eng,
      best |-> {moves[i] : i \in (IF captures # {} THEN captures ELSE top)}]

\* getBestMove below the gameOver test, with moves = getAllLegalMoves()
GetBestMoveFrom(s, moves, maxDepth) ==
  IF Len(moves) = 0 THEN [started |-> TRUE, best |-> {}, nodes |-> 0, eng |-> s]
  ELSE PickBest(s, moves,
                RootLoop([scores |-> <<>>, nodes |-> 0, eng |-> s, stopped |-> FALSE],
                         moves, 1, Len(moves), maxDepth))

\* getBestMove(engine) with this.depth = maxDepth.  started tells whether
\* nodes and running were assigned; best is the set of moves the call may
\* return (empty for null)
GetBestMove(s, maxDepth) ==
  IF s.gameOver THEN [started |-> FALSE, best |-> {}, nodes |-> 0, eng |-> s]
  ELSE GetBestMoveFrom(s, GetAllLegalMoves(s), maxDepth)

(***************************************************************************)
(* The state machine.  The engine's fields are the variables; the callers  *)
(* of the engine are modelled by scripts of calls: each script is a fixed  *)
(* opening played from the constructor's position, followed by MaxFree     *)
(* calls chosen freely (any candidate move, undoMove or reset).  called,   *)
(* arg and ret record the last call, its argument and what it returned;    *)
(* prevEng is the engine state that call started from.  aiDepth, aiNodes   *)
(* and aiRunning are the fields of ChessAI, aiThinking is App.aiThinking,  *)
(* aiTasks counts the pending timers of the application's AI turn and      *)
(* stopIssued counts the requested searches a stop() was called after.    *)
(***************************************************************************)
VARIABLES board, turn, moveHistory, castlingRights, enPassantTarget,
          halfMoveClock, fullMoveNumber, positionMap, gameOver, gameResult,
          line, step, called, arg, ret, prevEng,
          aiDepth, aiNodes, aiRunning, aiThinking, aiTasks, stopIssued

engineVars == <<board, turn, moveHistory, castlingRights, enPassantTarget,
                halfMoveClock, fullMoveNumber, positionMap, gameOver, gameResult>>
aiVars == <<aiDepth, aiNodes, aiRunning, aiThinking, aiTasks, stopIssued>>
vars == <<board, turn, moveHistory, castlingRights, enPassantTarget,
          halfMoveClock, fullMoveNumber, positionMap, gameOver, gameResult,
          line, step, called, arg, ret, prevEng,
          aiDepth, aiNodes, aiRunning, aiThinking, aiTasks, stopIssued>>

\* no timer of the AI turn pending
NoTasks == [timer |-> 0, delay |-> 0, queued |-> 0]

\* new ChessAI() and the App object: depth 3, nothing running or pending
AiInit ==
  /\ aiDepth = 3
  /\ aiNodes = 0
  /\ aiRunning = FALSE
  /\ aiThinking = FALSE
  /\ aiTasks = NoTasks
  /\ stopIssued = 0

\* free calls appended to every script
MaxFree == 1

Eng ==
  [board |-> board, turn |-> turn, moveHistory |-> moveHistory,
   castlingRights |-> castlingRights, enPassantTarget |-> enPassantTarget,
   halfMoveClock |-> halfMoveClock, fullMoveNumber |-> fullMoveNumber,
   positionMap |-> positionMap, gameOver |-> gameOver, gameResult |-> gameResult]

SetEng(s) ==
  /\ board' = s.board
  /\ turn' = s.turn
  /\ moveHistory' = s.moveHistory
  /\ castlingRights' = s.castlingRights
  /\ enPassantTarget' = s.enPassantTarget
  /\ halfMoveClock' = s.halfMoveClock
  /\ fullMoveNumber' = s.fullMoveNumber
  /\ positionMap' = s.positionMap
  /\ gameOver' = s.gameOver
  /\ gameResult' = s.gameResult

\* a candidate handed to makeMove: { from, to, promoteTo }
Cand(from, to, promoteTo) == [from |-> from, to |-> to, promoteTo |-> promoteTo]
NoArg == Cand(NoSq, NoSq, Null)

MoveE(cands) == [op |-> "move", cands |-> cands]
Mo(from, to) == MoveE({Cand(from, to, Null)})
AnyE == [op |-> "any", cands |-> {}]
UndoE == [op |-> "undo", cands |-> {}]
ResetE == [op |-> "reset", cands |-> {}]
EndE == [op |-> "end", cands |-> {}]
\* loadFEN(fen): the string is held as its whitespace-separated fields
LoadE(fen) == [op |-> "load", cands |-> {}, fen |-> fen]

\* free play from the starting position
lineOpening ==
  <<  >>

\* 1.e4 d5 2.Nc3 Bg4 3.d3 a6 4.Be3 a5, then the king goes e1-c1
lineWhiteCastle ==
  << Mo(52, 36), Mo(11, 27), Mo(57, 42), Mo(2, 38), Mo(51, 43), Mo(8, 16),
     Mo(58, 44), Mo(16, 24), Mo(60, 58) >>

\* White shuffles Ng1-f3-g1; 1...d5 2...Qd6 3...Qa6 4...h5 5...Rh6 6...Rd6 7...Rd8 8...Nf6 9...e6 10...Be7, then e8-e8
lineBlackCastle ==
  << Mo(62, 45), Mo(11, 27), Mo(45, 62), Mo(3, 19), Mo(62, 45), Mo(19, 16),
     Mo(45, 62), Mo(15, 31), Mo(62, 45), Mo(7, 23), Mo(45, 62), Mo(23, 19),
     Mo(62, 45), Mo(19, 3), Mo(45, 62), Mo(6, 21), Mo(62, 45), Mo(12, 20),
     Mo(45, 62), Mo(5, 12), Mo(62, 45), Mo(4, 4) >>

\* 1.a4 b5 2.axb5 a6 3.bxa6 Bb7 4.axb7 Nc6, then the b7 pawn reaches the last rank
linePromotion ==
  << Mo(48, 32), Mo(9, 25), Mo(32, 25), Mo(8, 16), Mo(25, 16), Mo(2, 9),
     Mo(16, 9), Mo(1, 18), MoveE({Cand(9, 0, Null), Cand(9, 0, "wN"), Cand(9, 0, "bQ"), Cand(9, 0, "wK"), Cand(9, 1, Null), Cand(9, 1, "wR"), Cand(9, 2, Null)}) >>

\* 1.f3 e5 2.g4 Qh4#, then further attempts
lineFoolsMate ==
  << Mo(53, 45), Mo(12, 28), Mo(54, 38), Mo(3, 39), MoveE({Cand(52, 36, Null), Cand(60, 53, Null), Cand(48, 40, Null)}) >>

\* 1.Nf3 Nf6 2.Ng1 Ng8 3.Nf3 Nf6 4.Ng1 Ng8 (third occurrence), then further attempts
lineThreefold ==
  << Mo(62, 45), Mo(6, 21), Mo(45, 62), Mo(21, 6), Mo(62, 45), Mo(6, 21),
     Mo(45, 62), Mo(21, 6), MoveE({Cand(52, 36, Null), Cand(62, 45, Null)}) >>

\* 1.e4 a6 2.e5 d5 3.exd6 e.p.
lineEnPassant ==
  << Mo(52, 36), Mo(8, 16), Mo(36, 28), Mo(11, 27), MoveE({Cand(28, 19, Null), Cand(28, 20, Null), Cand(28, 21, Null)}) >>

\* 1.e4 b6 2.Bb5 c6 3.Ba4 Ba6 4.Nf3 h6: f1 is attacked, O-O is tried
lineCastleAttacked ==
  << Mo(52, 36), Mo(9, 17), Mo(61, 25), Mo(10, 18), Mo(25, 32), Mo(2, 16),
     Mo(62, 45), Mo(15, 23), MoveE({Cand(60, 62, Null), Cand(60, 61, Null), Cand(60, 52, Null)}) >>

\* 1.e4 e5 2.Nf3 Nf6 3.Bc4 Bc5 4.O-O
lineCastle ==
  << Mo(52, 36), Mo(12, 28), Mo(62, 45), Mo(6, 21), Mo(61, 34), Mo(5, 26),
     Mo(60, 62) >>

\* 1.e4 e5 2.Qh5 Nc6 3.Qxf7+
lineCheck ==
  << Mo(52, 36), Mo(12, 28), Mo(59, 31), Mo(1, 18), Mo(31, 13) >>

\* 1.d4 e6 2.c4 Bb4+ 3.Nc3 a6: the c3 knight is pinned
linePin ==
  << Mo(51, 35), Mo(12, 20), Mo(50, 34), Mo(5, 33), Mo(57, 42), Mo(8, 16) >>

\* 1.e4, undo
lineUndoOne ==
  << Mo(52, 36), UndoE >>

\* 1.e4 e5, undo
lineUndoTwo ==
  << Mo(52, 36), Mo(12, 28), UndoE >>

\* 1.e4 e5 2.Nf3, undo, undo
lineUndoThree ==
  << Mo(52, 36), Mo(12, 28), Mo(62, 45), UndoE, UndoE >>

\* 1.e4 e5, reset
lineReset ==
  << Mo(52, 36), Mo(12, 28), ResetE >>

\* 1.e3 a5 2.Qh5 Ra6 3.Qxa5 h5 4.h4 Rah6 5.Qxc7 f6 6.Qxd7+ Kf7 7.Qxb7 Qd3 8.Qxb8 Qh7 9.Qxc8 Kg6 10.Qe6: stalemate
lineSamLoyd ==
  << Mo(52, 44), Mo(8, 24), Mo(59, 31), Mo(0, 16), Mo(31, 24), Mo(15, 31),
     Mo(55, 39), Mo(16, 23), Mo(24, 10), Mo(13, 21), Mo(10, 11), Mo(4, 13),
     Mo(11, 9), Mo(3, 43), Mo(9, 1), Mo(43, 15), Mo(1, 2), Mo(13, 22),
     Mo(2, 20) >>

\* 1.b3 g5 2.Bb2 a6 3.Bxh8: the h8 rook is captured on its corner
lineRookCaptured ==
  << Mo(49, 41), Mo(14, 30), Mo(58, 49), Mo(8, 16), Mo(49, 7) >>

\* loadFEN of K+R v K with halfMoveClock 99; Ra8 mates, Ra7 and Kf6 do not
lineLoadRookMate ==
  << LoadE(<< <<"7", "k", "/", "8", "/", "6", "K", "1", "/", "8", "/", "8", "/", "8", "/", "8", "/", "R", "7">>,
        <<"w">>,
        <<"-">>,
        <<"-">>,
        <<"9", "9">>,
        <<"8", "0">> >>),
     MoveE({Cand(56, 0, Null), Cand(56, 8, Null), Cand(22, 21, Null)}) >>

\* loadFEN of K+Q v K with halfMoveClock 99; Qg6 stalemates, Qg7 mates, Qg1 does neither
lineLoadStalemate ==
  << LoadE(<< <<"7", "k", "/", "5", "K", "2", "/", "8", "/", "6", "Q", "1", "/", "8", "/", "8", "/", "8", "/", "8">>,
        <<"w">>,
        <<"-">>,
        <<"-">>,
        <<"9", "9">>,
        <<"8", "0">> >>),
     MoveE({Cand(30, 22, Null), Cand(30, 14, Null), Cand(30, 62, Null)}) >>

\* loadFEN of K+N v K+N with halfMoveClock 92; the knights shuffle back twice, the third occurrence falls on clock 100
lineLoadRepeat ==
  << LoadE(<< <<"1", "n", "2", "k", "3", "/", "8", "/", "8", "/", "8", "/", "8", "/", "8", "/", "8", "/", "1", "N", "2", "K", "3">>,
        <<"w">>,
        <<"-">>,
        <<"-">>,
        <<"9", "2">>,
        <<"6", "0">> >>),
     Mo(57, 42), Mo(1, 18), Mo(42, 57), Mo(18, 1), Mo(57, 42), Mo(1, 18),
     Mo(42, 57), MoveE({Cand(18, 1, Null), Cand(18, 24, Null)}) >>

\* loadFEN of the same K+N v K+N with halfMoveClock 0; the third occurrence falls on clock 8
lineLoadKnights ==
  << LoadE(<< <<"1", "n", "2", "k", "3", "/", "8", "/", "8", "/", "8", "/", "8", "/", "8", "/", "8", "/", "1", "N", "2", "K", "3">>,
        <<"w">>,
        <<"-">>,
        <<"-">>,
        <<"0">>,
        <<"6", "0">> >>),
     Mo(57, 42), Mo(1, 18), Mo(42, 57), Mo(18, 1), Mo(57, 42), Mo(1, 18),
     Mo(42, 57), MoveE({Cand(18, 1, Null), Cand(18, 24, Null)}) >>

\* loadFEN of K v K with halfMoveClock 99
lineLoadBareKings ==
  << LoadE(<< <<"4", "k", "3", "/", "8", "/", "8", "/", "8", "/", "8", "/", "8", "/", "8", "/", "4", "K", "3">>,
        <<"w">>,
        <<"-">>,
        <<"-">>,
        <<"9", "9">>,
        <<"7", "0">> >>),
     Mo(60, 52) >>

\* loadFEN of K+N v K+P; Nxc3 leaves K+N v K
lineLoadLastPawn ==
  << LoadE(<< <<"4", "k", "3", "/", "8", "/", "8", "/", "8", "/", "8", "/", "2", "p", "5", "/", "8", "/", "1", "N", "2", "K", "3">>,
        <<"w">>,
        <<"-">>,
        <<"-">>,
        <<"1", "0">>,
        <<"4", "0">> >>),
     MoveE({Cand(57, 42, Null), Cand(57, 40, Null), Cand(60, 52, Null)}) >>

\* loadFEN of K+B v K+B+N, the black bishop on d8; Bxe3 leaves bishops on squares of one colour
lineLoadBishopsSame ==
  << LoadE(<< <<"3", "b", "k", "3", "/", "8", "/", "8", "/", "8", "/", "8", "/", "4", "n", "3", "/", "8", "/", "2", "B", "1", "K", "3">>,
        <<"w">>,
        <<"-">>,
        <<"-">>,
        <<"4">>,
        <<"4", "0">> >>),
     MoveE({Cand(58, 44, Null), Cand(58, 51, Null)}) >>

\* loadFEN of K+B v K+B+N, the black bishop on c8; Bxe3 leaves bishops on squares of different colours
lineLoadBishopsOpposite ==
  << LoadE(<< <<"2", "b", "1", "k", "3", "/", "8", "/", "8", "/", "8", "/", "8", "/", "4", "n", "3", "/", "8", "/", "2", "B", "1", "K", "3">>,
        <<"w">>,
        <<"-">>,
        <<"-">>,
        <<"4">>,
        <<"4", "0">> >>),
     MoveE({Cand(58, 44, Null), Cand(58, 51, Null)}) >>

\* loadFEN of a string with three fields only
lineLoadInvalid ==
  << LoadE(<< <<"8", "/", "8", "/", "8", "/", "8", "/", "8", "/", "8", "/", "8", "/", "8">>,
        <<"w">>,
        <<"-">> >>) >>

\* a puzzle or PGN FEN tag whose turn field is neither w nor b, after 1.e4
lineLoadBadTurn ==
  << Mo(52, 36),
     LoadE(<< <<"4", "k", "3", "/", "8", "/", "8", "/", "8", "/", "8", "/", "8", "/", "8", "/", "4", "K", "3">>,
        <<"x">>,
        <<"-">>,
        <<"-">>,
        <<"0">>,
        <<"1">> >>) >>

\* loadFEN of a placement whose last rank holds nine files: 4K3R
lineLoadLongRank ==
  << LoadE(<< <<"4", "k", "3", "/", "8", "/", "8", "/", "8", "/", "8", "/", "8", "/", "8", "/", "4", "K", "3", "R">>,
        <<"w">>,
        <<"-">>,
        <<"-">>,
        <<"0">>,
        <<"1">> >>) >>

\* 1.Nc3 a6 2.Nf3 a5 3.d3 b6 4.Be3 b5 5.Qd2 h6 6.g3 h5 7.Bg2 g6: only king
\* and rooks are left on White's first rank
lineBothWings ==
  << Mo(57, 42), Mo(8, 16), Mo(62, 45), Mo(16, 24), Mo(51, 43), Mo(9, 17),
     Mo(58, 44), Mo(17, 25), Mo(59, 51), Mo(15, 23), Mo(54, 46), Mo(23, 31),
     Mo(61, 54), Mo(14, 22) >>

Scripted ==
  << lineOpening,
     lineWhiteCastle,
     lineBlackCastle,
     linePromotion,
     lineFoolsMate,
     lineThreefold,
     lineEnPassant,
     lineCastleAttacked,
     lineCastle,
     lineCheck,
     linePin,
     lineUndoOne,
     lineUndoTwo,
     lineUndoThree,
     lineReset,
     lineSamLoyd,
     lineRookCaptured,
     lineLoadRookMate,
     lineLoadStalemate,
     lineLoadRepeat,
     lineLoadKnights,
     lineLoadBareKings,
     lineLoadLastPawn,
     lineLoadBishopsSame,
     lineLoadBishopsOpposite,
     lineLoadInvalid,
     lineLoadBadTurn,
     lineBothWings,
     lineLoadLongRank >>

Scripts == [k \in 1..Len(Scripted) |-> Scripted[k] \o [i \in 1..MaxFree |-> AnyE]]

Entry == IF step < Len(Scripts[line]) THEN Scripts[line][step + 1] ELSE EndE

\* candidates that are tried whatever the position: castling attempts, moves
\* from squares that may be empty, and first moves of either side
Probes ==
  {Cand(60, 62, Null), Cand(60, 58, Null), Cand(4, 6, Null), Cand(4, 2, Null),
   Cand(4, 4, Null), Cand(35, 27, Null), Cand(36, 36, Null), Cand(0, 63, Null),
   Cand(52, 36, Null), Cand(12, 28, Null), Cand(62, 45, Null), Cand(6, 21, Null)}

\* the candidates of a free call: every pseudo-move of the side to move (legal
\* or not), with and without its promotion piece, and the probes
AnyCands(s) ==
  LET pseudo == GetAllPseudoMoves(s.board, s.turn, s.castlingRights, s.enPassantTarget)
  IN {Cand(pseudo[i].from, pseudo[i].to, pseudo[i].promoteTo) : i \in 1..Len(pseudo)}
       \cup {Cand(pseudo[i].from, pseudo[i].to, Null) : i \in 1..Len(pseudo)}
       \cup Probes

Init ==
  /\ board = ResetState.board
  /\ turn = ResetState.turn
  /\ moveHistory = ResetState.moveHistory
  /\ castlingRights = ResetState.castlingRights
  /\ enPassantTarget = ResetState.enPassantTarget
  /\ halfMoveClock = ResetState.halfMoveClock
  /\ fullMoveNumber = ResetState.fullMoveNumber
  /\ positionMap = ResetState.positionMap
  /\ gameOver = ResetState.gameOver
  /\ gameResult = ResetState.gameResult
  /\ line \in 1..Len(Scripted)
  /\ step = 0
  /\ called = "constructor"
  /\ arg = NoArg
  /\ ret = <<>>
  /\ prevEng = ResetState
  /\ AiInit

MakeMoveAct(cand) ==
  /\ \E r \in {MakeMove(Eng, cand)} :
       /\ SetEng(r.s)
       /\ ret' = r.ret
  /\ called' = "makeMove"
  /\ arg' = cand
  /\ step' = step + 1
  /\ prevEng' = Eng
  /\ UNCHANGED <<line, aiVars>>

MakeMoveCall ==
  /\ Entry.op \in {"move", "any"}
  /\ \E cand \in (IF Entry.op = "move" THEN Entry.cands ELSE AnyCands(Eng)) :
       MakeMoveAct(cand)

UndoMoveCall ==
  /\ Entry.op \in {"undo", "any"}
  /\ \E r \in {UndoMove(Eng)} :
       /\ SetEng(r.s)
       /\ ret' = r.ret
  /\ called' = "undoMove"
  /\ arg' = NoArg
  /\ step' = step + 1
  /\ prevEng' = Eng
  /\ UNCHANGED <<line, aiVars>>

ResetCall ==
  /\ Entry.op \in {"reset", "any"}
  /\ SetEng(ResetState)
  /\ ret' = <<>>
  /\ called' = "reset"
  /\ arg' = NoArg
  /\ step' = step + 1
  /\ prevEng' = Eng
  /\ UNCHANGED <<line, aiVars>>

\* loadFEN(fen): throws before it assigns any field, or installs the position
LoadFENCall ==
  /\ Entry.op = "load"
  /\ IF LoadFENThrows(Entry.fen)
     THEN /\ UNCHANGED engineVars
          /\ called' = "loadFEN throws"
     ELSE /\ SetEng(LoadFEN(Eng, Entry.fen))
          /\ called' = "loadFEN"
  /\ ret' = <<>>
  /\ arg' = NoArg
  /\ step' = step + 1
  /\ prevEng' = Eng
  /\ UNCHANGED <<line, aiVars>>

Next == MakeMoveCall \/ UndoMoveCall \/ ResetCall \/ LoadFENCall

Spec == Init /\ [][Next]_vars

\* committed moves only: no undoMove, no reset
SpecPlay == Init /\ [][MakeMoveCall]_vars

\* the scripted moves only, without the free calls
ScriptedMoveCall ==
  /\ Entry.op = "move"
  /\ \E cand \in Entry.cands : MakeMoveAct(cand)

SpecScript == Init /\ [][ScriptedMoveCall]_vars

\* the FEN export button followed by the FEN import button: the exported
\* string goes through the input field back into FENManager.import
ExportImportCall ==
  /\ \E fen \in {FENExport(Eng)} :
       IF FENImportThrows(fen)
       THEN /\ UNCHANGED engineVars
            /\ called' = "FENManager.import throws"
       ELSE /\ SetEng(FENImport(Eng, fen))
            /\ called' = "FENManager.import"
  /\ ret' = <<>>
  /\ arg' = NoArg
  /\ prevEng' = Eng
  /\ UNCHANGED <<line, step, aiVars>>

\* the scripted moves, with an export followed by an import at any point
SpecFEN == Init /\ [][ScriptedMoveCall \/ ExportImportCall]_vars

(***************************************************************************)
(* PGNManager: the castling tokens of a move text.                         *)
(***************************************************************************)
\* _findCastleMove(engine, castleType): the first legal move of that type
FindCastleMove(s, castleType) ==
  LET found == SelectSeq(GetAllLegalMoves(s), LAMBDA m : m.type = castleType)
  IN IF found = <<>> THEN <<>> ELSE <<Head(found)>>

\* _parseSAN(engine, san) up to its castling branch: the check and
\* annotation marks are stripped; <<>> stands for the tokens that take the
\* other branches, which the replay below does not draw
ParseSAN(s, san) ==
  LET stripped == SelectSeq(san, LAMBDA c : c \notin {"+", "#", "!", "?"})
  IN IF stripped \in {<<"O", "-", "O", "-", "O">>, <<"0", "-", "0", "-", "0">>}
     THEN FindCastleMove(s, "castleQueen")
     ELSE IF stripped \in {<<"O", "-", "O">>, <<"0", "-", "0">>}
     THEN FindCastleMove(s, "castleKing")
     ELSE <<>>

castleTokens ==
  {<<"O", "-", "O">>, <<"O", "-", "O", "-", "O">>, <<"O", "-", "O", "+">>}

\* one pass of the loop of PGNManager.import over a castling token:
\* _parseSAN, then makeMove of the move found; the import throws when either
\* returns nothing
ReplayCall ==
  /\ \E token \in castleTokens :
       \E move \in {ParseSAN(Eng, token)} :
         /\ IF move = <<>>
            THEN /\ UNCHANGED engineVars
                 /\ ret' = <<>>
                 /\ arg' = NoArg
            ELSE \E r \in {MakeMove(Eng, Cand(move[1].from, move[1].to, Null))} :
                   /\ SetEng(r.s)
                   /\ ret' = r.ret
                   /\ arg' = Cand(move[1].from, move[1].to, Null)
         /\ called' = IF Len(token) = 5 THEN "replay O-O-O" ELSE "replay O-O"
  /\ prevEng' = Eng
  /\ UNCHANGED <<line, step, aiVars>>

\* the scripted moves, with a castling token replayed at any point
SpecPGN == Init /\ [][ScriptedMoveCall \/ ReplayCall]_vars

(***************************************************************************)
(* PGNManager.import(engine, pgn) for a text without tags: engine.reset(), *)
(* then the loop over the tokens; the result is the engine as the call     *)
(* leaves it and whether the call threw.  The texts drawn hold castling    *)
(* tokens and marks only, the tokens whose parse is modelled above.        *)
(***************************************************************************)
\* the tokens the loop passes over: '...' and what starts with a digit once
\* a leading '...' is taken off
SkippedToken(token) ==
  LET rest == IF Len(token) >= 3 /\ SubSeq(token, 1, 3) = <<".", ".", ".">>
              THEN SubSeq(token, 4, Len(token))
              ELSE token
  IN \/ token = <<".", ".", ".">>
     \/ rest # <<>> /\ Head(rest) \in {digitChars[k] : k \in 1..10}

RECURSIVE ImportLoop(_, _, _)
\* after engine.makeMove(move): 'Illegal move' when it returned nothing
ImportMade(tokens, i, r) ==
  IF r.ret = <<>> THEN [s |-> r.s, threw |-> TRUE] ELSE ImportLoop(r.s, tokens, i + 1)

\* after _parseSAN(engine, token): 'Cannot parse move' when it returned nothing
ImportParsed(s, tokens, i, move) ==
  IF move = <<>>
  THEN [s |-> s, threw |-> TRUE]
  ELSE ImportMade(tokens, i, MakeMove(s, move[1]))

ImportLoop(s, tokens, i) ==
  IF i > Len(tokens)
  THEN [s |-> s, threw |-> FALSE]
  ELSE IF SkippedToken(tokens[i])
  THEN ImportLoop(s, tokens, i + 1)
  ELSE ImportParsed(s, tokens, i, ParseSAN(s, tokens[i]))

PGNImport(s, tokens) == ImportLoop(ResetState, tokens, 1)

\* the tokens of the move texts pasted into the field: 'O-O', 'O-O-O',
\* '!?', and '0-0', which the loop passes over as a number
pgnTexts ==
  { << <<"O", "-", "O">> >>,
    << <<"O", "-", "O", "-", "O">> >>,
    << <<"!", "?">> >>,
    << <<"0", "-", "0">> >> }

\* the PGN import button: PGNManager.import inside try, the catch shows a
\* message and leaves the engine as the call left it
PGNImportCall ==
  /\ \E tokens \in pgnTexts :
       \E r \in {PGNImport(Eng, tokens)} :
         /\ SetEng(r.s)
         /\ called' = IF r.threw THEN "PGNManager.import throws" ELSE "PGNManager.import"
  /\ ret' = <<>>
  /\ arg' = NoArg
  /\ prevEng' = Eng
  /\ UNCHANGED <<line, step, aiVars>>

\* the scripted moves, with a PGN import at any point
SpecImport == Init /\ [][ScriptedMoveCall \/ PGNImportCall]_vars

(***************************************************************************)
(* The rules of chess the claims refer to, stated without the engine's     *)
(* ray marching: which squares a piece attacks.                            *)
(***************************************************************************)
Abs(x) == IF x < 0 THEN -x ELSE x
Sgn(x) == IF x < 0 THEN -1 ELSE IF x > 0 THEN 1 ELSE 0

\* the squares strictly between two squares of one rank, file or diagonal
Between(a, b) ==
  LET dr == Row(b) - Row(a)
      df == Col(b) - Col(a)
      n == IF Abs(dr) > Abs(df) THEN Abs(dr) ELSE Abs(df)
  IN {Idx(Row(a) + k * Sgn(dr), Col(a) + k * Sgn(df)) : k \in 1..(n - 1)}

RuleAttacks(b, from, to) ==
  LET p == b[from]
      dr == Row(to) - Row(from)
      df == Col(to) - Col(from)
      clear == \A x \in Between(from, to) : b[x] = Null
      straight == (dr = 0) # (df = 0)
      diagonal == Abs(dr) = Abs(df) /\ dr # 0
  IN /\ p # Null
     /\ CASE Type(p) = "P" -> dr = (IF Color(p) = "w" THEN -1 ELSE 1) /\ Abs(df) = 1
          [] Type(p) = "N" -> {Abs(dr), Abs(df)} = {1, 2}
          [] Type(p) = "B" -> diagonal /\ clear
          [] Type(p) = "R" -> straight /\ clear
          [] Type(p) = "Q" -> (straight \/ diagonal) /\ clear
          [] Type(p) = "K" -> Abs(dr) <= 1 /\ Abs(df) <= 1 /\ from # to

RuleAttacked(b, sq, by) ==
  \E from \in Squares : b[from] # Null /\ Color(b[from]) = by /\ RuleAttacks(b, from, sq)

\* no king of color c stands on a square the opponent attacks
KingSafe(b, c) ==
  \A k \in Squares : b[k] = pieceTable[c]["K"] => ~RuleAttacked(b, k, Opp(c))

IsCastling(m) == m.type = "castleKing" \/ m.type = "castleQueen"
InSeq(seq, x) == \E i \in 1..Len(seq) : seq[i] = x
PseudoNow == GetAllPseudoMoves(board, turn, castlingRights, enPassantTarget)
LegalNow == GetAllLegalMoves(Eng)

\* the position part of an engine state
Position(s) ==
  [board |-> s.board, turn |-> s.turn, castlingRights |-> s.castlingRights,
   enPassantTarget |-> s.enPassantTarget, halfMoveClock |-> s.halfMoveClock,
   fullMoveNumber |-> s.fullMoveNumber]
PositionNow == Position(Eng)

(***************************************************************************)
(* C1: in every position reached by committed moves, a non-castling        *)
(* pseudo-move of the side to move is in getAllLegalMoves() iff applying   *)
(* it leaves the mover's king unattacked, and no move of the list leaves   *)
(* the mover's king attacked.                                              *)
(***************************************************************************)
C1_LegalIffKingSafe ==
  \E pseudo \in {PseudoNow}, legal \in {LegalNow} :
    /\ \A i \in 1..Len(pseudo) :
         ~IsCastling(pseudo[i]) =>
           (InSeq(legal, pseudo[i])
              <=> KingSafe(ApplyMoveToBoard(board, pseudo[i]), turn))
    /\ \A j \in 1..Len(legal) :
         KingSafe(ApplyMoveToBoard(board, legal[j]), turn)

\* a position where the filter has removed a non-castling pseudo-move and kept another
C1_Witness ==
  /\ Len(moveHistory) > 0
  /\ \E pseudo \in {PseudoNow}, legal \in {LegalNow} :
       /\ \E i \in 1..Len(pseudo) : ~IsCastling(pseudo[i]) /\ ~InSeq(legal, pseudo[i])
       /\ \E i \in 1..Len(pseudo) : ~IsCastling(pseudo[i]) /\ InSeq(legal, pseudo[i])

(***************************************************************************)
(* C2 (as claimed): every castling move of getAllLegalMoves() takes the    *)
(* king from its home square two files toward the rook of the wing whose   *)
(* right is set, with every square between king and rook empty, and puts   *)
(* that rook on the square the king crossed.                               *)
(***************************************************************************)
ProperCastle(s, m) ==
  LET home == IF s.turn = "w" THEN 60 ELSE 4
      king == pieceTable[s.turn]["K"]
      rook == pieceTable[s.turn]["R"]
      kingSide == /\ m.to = home + 2
                  /\ (IF s.turn = "w" THEN s.castlingRights.wK ELSE s.castlingRights.bK)
                  /\ s.board[home + 3] = rook
                  /\ \A x \in {home + 1, home + 2} : s.board[x] = Null
                  /\ m.rookFrom = home + 3 /\ m.rookTo = home + 1
      queenSide == /\ m.to = home - 2
                   /\ (IF s.turn = "w" THEN s.castlingRights.wQ ELSE s.castlingRights.bQ)
                   /\ s.board[home - 4] = rook
                   /\ \A x \in {home - 1, home - 2, home - 3} : s.board[x] = Null
                   /\ m.rookFrom = home - 4 /\ m.rookTo = home - 1
      after == ApplyMoveToBoard(s.board, m)
  IN /\ m.from = home
     /\ s.board[home] = king
     /\ kingSide \/ queenSide
     /\ after[m.to] = king
     /\ after[(m.from + m.to) \div 2] = rook
     /\ after[m.from] = Null /\ after[m.rookFrom] = Null

C2_CastlingGeometry ==
  \E legal \in {LegalNow} :
    \A j \in 1..Len(legal) : IsCastling(legal[j]) => ProperCastle(Eng, legal[j])

(***************************************************************************)
(* C3 (as claimed): a castling move is in the legal set only if the        *)
(* mover's king is not in check and neither the square the king crosses    *)
(* nor the square it lands on is attacked by the opponent.                 *)
(***************************************************************************)
C3_CastlingSafety ==
  \E legal \in {LegalNow} :
    \A j \in 1..Len(legal) :
      IsCastling(legal[j]) =>
        /\ KingSafe(board, turn)
        /\ ~RuleAttacked(board, (legal[j].from + legal[j].to) \div 2, Opp(turn))
        /\ ~RuleAttacked(board, legal[j].to, Opp(turn))

(***************************************************************************)
(* Counting move sequences: level d holds the engine states after every    *)
(* sequence of d committed moves from the constructor's position.          *)
(***************************************************************************)
Successors(s) ==
  IF s.gameOver THEN <<>>
  ELSE LET legal == GetAllLegalMoves(s)
       IN [k \in 1..Len(legal) |->
             MakeMove(s, Cand(legal[k].from, legal[k].to, legal[k].promoteTo)).s]

RECURSIVE Level(_)
Level(d) ==
  IF d = 0 THEN <<ResetState>>
  ELSE LET prev == Level(d - 1)
       IN Flatten([i \in 1..Len(prev) |-> Successors(prev[i])])

RECURSIVE SumRange(_, _, _)
SumRange(f, lo, hi) ==
  IF lo > hi THEN 0
  ELSE IF lo = hi THEN f[lo]
  ELSE LET mid == (lo + hi) \div 2
       IN SumRange(f, lo, mid) + SumRange(f, mid + 1, hi)

\* the number of sequences of d legal moves, d >= 1
SequenceCount(d) ==
  LET lv == Level(d - 1)
  IN SumRange([i \in 1..Len(lv) |->
                 IF lv[i].gameOver THEN 0 ELSE Len(GetAllLegalMoves(lv[i]))],
              1, Len(lv))

perftExpected == <<20, 400, 8902, 197281>>

(***************************************************************************)
(* C4: from the standard starting position the number of sequences of      *)
(* legal moves of length 1, 2, 3 and 4, generated by getAllLegalMoves and  *)
(* applied by makeMove, is 20, 400, 8902 and 197281.                       *)
(***************************************************************************)
C4_Perft ==
  (line = 1 /\ step = 0) =>
    \A d \in 1..Len(perftExpected) : SequenceCount(d) = perftExpected[d]

\* the constructor's position: twenty moves, and four hundred positions two moves on,
\* some of them with an en-passant target
C4_Witness ==
  /\ line = 1 /\ step = 0
  /\ Eng = ResetState
  /\ Len(LegalNow) = 20
  /\ \E lv \in {Level(2)} :
       /\ Len(lv) = 400
       /\ \E i \in 1..Len(lv) : lv[i].enPassantTarget # NoSq

(***************************************************************************)
(* C5 (as claimed): every position reached by committed moves holds        *)
(* exactly one white king and exactly one black king.                      *)
(***************************************************************************)
C5_OneKingEach ==
  /\ Cardinality({i \in Squares : board[i] = "wK"}) = 1
  /\ Cardinality({i \in Squares : board[i] = "bK"}) = 1

(***************************************************************************)
(* C6: makeMove(candidate) returns false and leaves every field of the     *)
(* game state unchanged whenever no legal move of the side to move has     *)
(* the candidate's from and to squares.                                    *)
(***************************************************************************)
NoLegalPair(s, cand) ==
  LET legal == GetAllLegalMoves(s)
  IN \A i \in 1..Len(legal) : ~(legal[i].from = cand.from /\ legal[i].to = cand.to)

C6_RejectUnchanged ==
  [][(called' = "makeMove" /\ NoLegalPair(Eng, arg'))
       => (ret' = <<>> /\ UNCHANGED engineVars)]_vars

\* a rejected attempt to move a piece of the side to move, in a game that is not over
C6_Witness ==
  /\ called = "makeMove" /\ ret = <<>> /\ ~gameOver
  /\ NoLegalPair(Eng, arg)
  /\ board[arg.from] # Null /\ Color(board[arg.from]) = turn
  /\ Eng = prevEng

(***************************************************************************)
(* C7 (as claimed): for a pawn move onto the last rank, makeMove commits   *)
(* only when the candidate carries the promotion piece of one of the legal *)
(* promotion moves; without a promotion choice it is rejected.             *)
(***************************************************************************)
IsPromoAttempt(s, cand) ==
  /\ s.board[cand.from] = pieceTable[s.turn]["P"]
  /\ Row(cand.to) = (IF s.turn = "w" THEN 0 ELSE 7)

LegalPromos(s, cand) ==
  LET legal == GetAllLegalMoves(s)
  IN {legal[i].promoteTo :
        i \in {k \in 1..Len(legal) : legal[k].from = cand.from /\ legal[k].to = cand.to}}

C8_FrozenAfterGameOver ==
  [][(gameOver /\ called' = "makeMove") => (ret' = <<>> /\ UNCHANGED engineVars)]_vars

\* a rejected move in a drawn game, where the side to move still has legal moves
C8_Witness ==
  /\ gameOver /\ called = "makeMove" /\ ret = <<>>
  /\ gameResult.reason = "threefold repetition"
  /\ ~NoLegalPair(Eng, arg)

(***************************************************************************)
(* C9 (as claimed): if makeMove succeeds in a position P reached by        *)
(* committed moves, an immediately following undoMove() leaves board,      *)
(* turn, castling rights, en-passant target and both clocks equal to P's.  *)
(***************************************************************************)
\* every call so far was a successful makeMove
OnlyCommittedMoves == Len(moveHistory) = step

C9_UndoRestoresPosition ==
  [][(called = "makeMove" /\ ret # <<>> /\ OnlyCommittedMoves /\ called' = "undoMove")
       => PositionNow' = Position(prevEng)]_vars

(***************************************************************************)
(* C10 (as claimed): undoMove() on a move list of length n >= 1 returns    *)
(* the last record and leaves the first n-1 records, unchanged and in      *)
(* order; otherwise the list is only extended by one record per successful *)
(* makeMove or emptied by reset.                                           *)
(***************************************************************************)
C10_UndoPopsOneRecord ==
  [][/\ (called' = "undoMove" /\ Len(moveHistory) >= 1) =>
          /\ ret' = <<moveHistory[Len(moveHistory)]>>
          /\ moveHistory' = SubSeq(moveHistory, 1, Len(moveHistory) - 1)
     /\ (called' = "undoMove" /\ Len(moveHistory) = 0) => moveHistory' = moveHistory
     /\ called' = "makeMove" =>
          moveHistory' = (IF ret' = <<>> THEN moveHistory
                          ELSE Append(moveHistory, ret'[1]))
     /\ called' = "reset" => moveHistory' = <<>>]_vars

(***************************************************************************)
(* C11 (as claimed): after a successful makeMove followed by undoMove the  *)
(* position history (key to occurrence count) equals what it was           *)
(* immediately before that makeMove.                                       *)
(***************************************************************************)
\* positionMap as the set of its (key, count) entries
CountsOf(pm) == {<<pm[i].key, pm[i].count>> : i \in 1..Len(pm)}

C11_UndoRestoresHistory ==
  [][(called = "makeMove" /\ ret # <<>> /\ called' = "undoMove")
       => CountsOf(positionMap') = CountsOf(prevEng.positionMap)]_vars

(***************************************************************************)
(* C12: undoMove() called with an empty move list returns false and leaves *)
(* every field of the game state unchanged.                                *)
(***************************************************************************)
C12_UndoEmptyUnchanged ==
  [][(called' = "undoMove" /\ Len(moveHistory) = 0)
       => (ret' = <<>> /\ UNCHANGED engineVars)]_vars

\* undoMove has returned false in a position that is not the starting one
C12_Witness ==
  /\ called = "undoMove" /\ ret = <<>>
  /\ Len(moveHistory) = 0
  /\ Eng = prevEng
  /\ board # StartBoard

(***************************************************************************)
(* The end of the game as the rules state it, read off the position after  *)
(* a committed move.                                                       *)
(***************************************************************************)
\* the last call was a makeMove that committed a move
Committed == called = "makeMove" /\ ret # <<>>
\* the side to move has a king that the opponent attacks
InCheckNow == ~KingSafe(board, turn)

(***************************************************************************)
(* C13: after any committed move the MoveRecord has isMate = true iff the  *)
(* side now to move is in check and has no legal move; then gameOver is    *)
(* set with winner = the side that just moved and reason checkmate, and    *)
(* getAllLegalMoves() is empty.                                            *)
(***************************************************************************)
C13_Checkmate ==
  Committed =>
    \E legal \in {LegalNow} :
      /\ ret[1].isMate <=> (InCheckNow /\ Len(legal) = 0)
      /\ ret[1].isMate =>
           /\ gameOver
           /\ gameResult = [winner |-> Color(ret[1].piece), reason |-> "checkmate"]
           /\ Color(ret[1].piece) = Opp(turn)
           /\ legal = <<>>

\* a mating move has just been committed
C13_Witness ==
  /\ Committed /\ ret[1].isMate
  /\ InCheckNow /\ LegalNow = <<>>
  /\ gameOver /\ gameResult.reason = "checkmate"

(***************************************************************************)
(* C14: after any committed move, if the side now to move is not in check  *)
(* and has no legal move, the game is over as a draw (winner null) with    *)
(* reason stalemate; that result is recorded in no other case.             *)
(***************************************************************************)
C14_Stalemate ==
  /\ Committed =>
       ((~InCheckNow /\ Len(LegalNow) = 0)
          => (gameOver /\ gameResult = [winner |-> Null, reason |-> "stalemate"]))
  /\ gameResult.reason = "stalemate" =>
       (gameOver /\ ~InCheckNow /\ Len(LegalNow) = 0)

\* a stalemating move has just been committed
C14_Witness ==
  /\ Committed /\ ret[1].isStalemate
  /\ ~InCheckNow /\ LegalNow = <<>>
  /\ gameResult = [winner |-> Null, reason |-> "stalemate"]

(***************************************************************************)
(* Occurrence counts of the reduced position keys.                         *)
(***************************************************************************)
\* the count positionMap pm holds for key k, 0 when k is absent
CountOf(pm, k) ==
  IF \E i \in 1..Len(pm) : pm[i].key = k
  THEN (CHOOSE e \in {pm[i] : i \in 1..Len(pm)} : e.key = k).count
  ELSE 0

\* this step takes the count of some key from 2 to 3
ReachesThree ==
  \E i \in 1..Len(positionMap') :
    /\ positionMap'[i].count = 3
    /\ CountOf(positionMap, positionMap'[i].key) = 2

DeclaredThreefold == gameResult.reason = "threefold repetition"

(***************************************************************************)
(* C15 (as claimed): a draw by threefold repetition is declared by exactly *)
(* the committed move that makes the occurrence count of some reduced      *)
(* position key reach 3, counting the initial position, and is never       *)
(* declared while every key's count is at most 2.                          *)
(***************************************************************************)
C15_ThreefoldExactlyAtThree ==
  [][/\ (called' = "makeMove" /\ ret' # <<>>) => (DeclaredThreefold' <=> ReachesThree)
     /\ DeclaredThreefold' => \E i \in 1..Len(positionMap') : positionMap'[i].count >= 3]_vars

(***************************************************************************)
(* C15 (amended): threefold repetition is recorded only by the committed   *)
(* move that makes the count of some reduced position key reach 3, never   *)
(* while every count is at most 2; the move that makes a count reach 3     *)
(* always ends the game as a draw, recorded as threefold repetition when   *)
(* halfMoveClock after the move is below 100 and as 50-move rule when it   *)
(* is 100 or more.                                                         *)
(***************************************************************************)
C15_ThreefoldUnlessFiftyMove ==
  [][/\ (called' = "makeMove" /\ ret' # <<>>) =>
          /\ DeclaredThreefold' => ReachesThree
          /\ ReachesThree =>
               /\ gameOver'
               /\ gameResult' = [winner |-> Null,
                                 reason |-> IF halfMoveClock' >= 100
                                            THEN "50-move rule"
                                            ELSE "threefold repetition"]
     /\ DeclaredThreefold' =>
          \E i \in 1..Len(positionMap') : positionMap'[i].count >= 3]_vars

\* the third occurrence of a position has just been recorded as a draw by repetition,
\* the second occurrence having passed without one
C15_Witness ==
  /\ Committed /\ gameOver /\ DeclaredThreefold
  /\ CountOf(positionMap, FenCore(Eng)) = 3
  /\ CountOf(prevEng.positionMap, FenCore(Eng)) = 2
  /\ ~prevEng.gameOver
  /\ halfMoveClock < 100

(***************************************************************************)
(* C16: a committed move that is neither checkmate nor stalemate ends the  *)
(* game as a draw with reason 50-move rule exactly when halfMoveClock      *)
(* after the move is at least 100; with the clock below 100 that reason is *)
(* never recorded.                                                         *)
(***************************************************************************)
C16_FiftyMoveRule ==
  /\ (Committed /\ Len(LegalNow) > 0) =>
       IF halfMoveClock >= 100
       THEN gameOver /\ gameResult = [winner |-> Null, reason |-> "50-move rule"]
       ELSE gameResult.reason # "50-move rule"
  /\ gameResult.reason = "50-move rule" => halfMoveClock >= 100

\* a quiet move has just taken the clock from 99 to 100 and drawn the game
C16_Witness ==
  /\ Committed /\ Len(LegalNow) > 0
  /\ prevEng.halfMoveClock = 99 /\ halfMoveClock = 100
  /\ ~prevEng.gameOver
  /\ gameOver /\ gameResult = [winner |-> Null, reason |-> "50-move rule"]

(***************************************************************************)
(* The insufficient-material test applied to boards with both kings and a  *)
(* few other pieces: the boards are drawn at the start, the call stores    *)
(* its answer in ret.                                                      *)
(***************************************************************************)
\* other pieces placed besides the two kings, at most
MaxExtras == 2
\* where they are placed: d5, e5, d4, e4, c6 (squares of both colours)
materialSquares == {27, 28, 35, 36, 18}
nonKings == {p \in PIECES : Type(p) # "K"}

MaterialBoard(S, f) ==
  [i \in Squares |-> IF i \in S THEN f[i]
                     ELSE IF i = 60 THEN "wK"
                     ELSE IF i = 4 THEN "bK"
                     ELSE Null]

InitMaterial ==
  /\ \E S \in SUBSET materialSquares :
       /\ Cardinality(S) <= MaxExtras
       /\ \E f \in [S -> nonKings] : board = MaterialBoard(S, f)
  /\ turn = ResetState.turn
  /\ moveHistory = ResetState.moveHistory
  /\ castlingRights = [wK |-> FALSE, wQ |-> FALSE, bK |-> FALSE, bQ |-> FALSE]
  /\ enPassantTarget = ResetState.enPassantTarget
  /\ halfMoveClock = ResetState.halfMoveClock
  /\ fullMoveNumber = ResetState.fullMoveNumber
  /\ positionMap = <<>>
  /\ gameOver = FALSE
  /\ gameResult = NoResult
  /\ line = 1
  /\ step = 0
  /\ called = "board"
  /\ arg = NoArg
  /\ ret = <<>>
  /\ prevEng = ResetState
  /\ AiInit

IsInsufficientMaterialCall ==
  /\ called = "board"
  /\ ret' = <<IsInsufficientMaterial(board)>>
  /\ called' = "_isInsufficientMaterial"
  /\ step' = step + 1
  /\ UNCHANGED <<engineVars, line, arg, prevEng, aiVars>>

SpecMaterial == InitMaterial /\ [][IsInsufficientMaterialCall]_vars

\* the material the rule names, for a board with one king of each colour
Extras(b) == {i \in Squares : b[i] # Null /\ Type(b[i]) # "K"}
SameColouredSquares(i, j) == (Row(i) + Col(i)) % 2 = (Row(j) + Col(j)) % 2
MaterialDraw(b) ==
  \E extras \in {Extras(b)} :
    \/ extras = {}
    \/ \E i \in extras : extras = {i} /\ Type(b[i]) \in {"N", "B"}
    \/ \E i, j \in extras :
         /\ extras = {i, j}
         /\ b[i] = "wB" /\ b[j] = "bB"
         /\ SameColouredSquares(i, j)

(***************************************************************************)
(* C17: the insufficient-material test is true exactly for two kings       *)
(* alone, two kings plus a single knight or bishop, and two kings plus one *)
(* bishop per side on same-coloured squares; it is false for every other   *)
(* material, in particular K+N v K+N and opposite-coloured bishops.        *)
(***************************************************************************)
C17_InsufficientMaterial ==
  called = "_isInsufficientMaterial" => ret = <<MaterialDraw(board)>>

\* the test has answered false for bishops on squares of different colours
C17_Witness ==
  /\ called = "_isInsufficientMaterial" /\ ret = <<FALSE>>
  /\ \E i, j \in materialSquares :
       /\ Extras(board) = {i, j}
       /\ board[i] = "wB" /\ board[j] = "bB"
       /\ ~SameColouredSquares(i, j)

(***************************************************************************)
(* C18: when several game-end conditions hold after one committed move,    *)
(* the recorded reason is the first that holds in the order checkmate,     *)
(* stalemate, 50-move rule, threefold repetition, insufficient material;   *)
(* a mating move that brings halfMoveClock to 100 is recorded as checkmate *)
(* with a winner.  When none holds the game goes on.                       *)
(***************************************************************************)
SomeCountAtLeastThree == \E i \in 1..Len(positionMap) : positionMap[i].count >= 3

FirstEndCondition ==
  \E legal \in {LegalNow} :
    IF InCheckNow /\ legal = <<>>
    THEN gameResult = [winner |-> Opp(turn), reason |-> "checkmate"]
    ELSE IF legal = <<>>
    THEN gameResult = [winner |-> Null, reason |-> "stalemate"]
    ELSE IF halfMoveClock >= 100
    THEN gameResult = [winner |-> Null, reason |-> "50-move rule"]
    ELSE IF SomeCountAtLeastThree
    THEN gameResult = [winner |-> Null, reason |-> "threefold repetition"]
    ELSE IF MaterialDraw(board)
    THEN gameResult = [winner |-> Null, reason |-> "insufficient material"]
    ELSE gameResult = NoResult

C18_FirstConditionWins ==
  Committed => (FirstEndCondition /\ (gameOver <=> gameResult # NoResult))

\* a mating move has brought the clock to 100 and is recorded as checkmate
C18_Witness ==
  /\ Committed /\ InCheckNow /\ LegalNow = <<>>
  /\ prevEng.halfMoveClock = 99 /\ halfMoveClock = 100
  /\ gameOver /\ gameResult = [winner |-> "w", reason |-> "checkmate"]

(***************************************************************************)
(* C19: in every position reached from the starting position by committed  *)
(* moves, a castling right is true only if that side's king stands on its  *)
(* home square and a rook of that side stands on that wing's home corner.  *)
(***************************************************************************)
rightKeys == {"wK", "wQ", "bK", "bQ"}
kingHome == [w |-> 60, b |-> 4]
rookCorner == [wK |-> 63, wQ |-> 56, bK |-> 7, bQ |-> 0]
sideOf == [wK |-> "w", wQ |-> "w", bK |-> "b", bQ |-> "b"]
kingOf == [w |-> "wK", b |-> "bK"]
rookOf == [w |-> "wR", b |-> "bR"]

StructurallyPossible(b, k) ==
  /\ b[kingHome[sideOf[k]]] = kingOf[sideOf[k]]
  /\ b[rookCorner[k]] = rookOf[sideOf[k]]

C19_RightsOnlyWhileStructural ==
  \A k \in rightKeys : castlingRights[k] => StructurallyPossible(board, k)

(***************************************************************************)
(* C20: across any sequence of committed moves (makeMove only), no         *)
(* castling right ever changes from false to true; a right is cleared when *)
(* that side's king moves or when a rook leaves that wing's home corner.   *)
(***************************************************************************)
CommitsNext == called' = "makeMove" /\ ret' # <<>>

C20_RightsMonotone ==
  [][/\ \A k \in rightKeys : castlingRights'[k] => castlingRights[k]
     /\ CommitsNext =>
          \A k \in rightKeys :
            /\ ret'[1].piece = kingOf[sideOf[k]] => ~castlingRights'[k]
            /\ (Type(ret'[1].piece) = "R" /\ ret'[1].from = rookCorner[k])
                 => ~castlingRights'[k]]_vars

\* the black rook has left h8 without castling and the right bK, set before, is cleared
C20_Witness ==
  /\ Committed /\ ret[1].piece = "bR" /\ ret[1].from = 7
  /\ prevEng.castlingRights.bK /\ ~castlingRights.bK
  /\ castlingRights.bQ /\ board[4] = "bK"

(***************************************************************************)
(* The search applied to small positions: the two kings in a corner fight  *)
(* and at most one other piece, or kings and rooks at home with castling   *)
(* rights left, either side to move.  setDifficulty picks                  *)
(* the depth; _minimax is called as getBestMove calls it, with the full    *)
(* window and the side to move as the maximizing flag.                     *)
(***************************************************************************)
\* the deepest search run
MaxDepth == 2
\* where the extra piece stands: d5, e7, e2
searchSquares == {27, 12, 52}
searchPieces == {"wQ", "wR", "wP", "bR", "bN", "bP"}

SearchBoard(sq, p) ==
  [i \in Squares |-> IF i = 17 THEN "wK"
                     ELSE IF i = 0 THEN "bK"
                     ELSE IF i = sq THEN p
                     ELSE Null]

\* e1 and h1, e8 and a8: White may castle king-side, Black queen-side
castleBoard ==
  [i \in Squares |-> IF i = 60 THEN "wK" ELSE IF i = 63 THEN "wR"
                     ELSE IF i = 4 THEN "bK" ELSE IF i = 0 THEN "bR"
                     ELSE Null]

searchInputs ==
  {[board |-> SearchBoard(NoSq, Null),
    rights |-> [wK |-> FALSE, wQ |-> FALSE, bK |-> FALSE, bQ |-> FALSE]]}
  \union {[board |-> SearchBoard(sq, p),
           rights |-> [wK |-> FALSE, wQ |-> FALSE, bK |-> FALSE, bQ |-> FALSE]] :
            sq \in searchSquares, p \in searchPieces}
  \union {[board |-> castleBoard,
           rights |-> [wK |-> TRUE, wQ |-> FALSE, bK |-> FALSE, bQ |-> TRUE]]}

\* the position as loadFEN installs it
SearchPosition(in, t) ==
  LET loaded == [ResetState EXCEPT
                   !.board = in.board, !.turn = t,
                   !.castlingRights = in.rights,
                   !.positionMap = <<>>]
  IN [loaded EXCEPT !.positionMap = RecordPosition(<<>>, FenCore(loaded))]

\* the side to move has no legal move: Black with the white queen on b7
\* (mate) or c7 (stalemate), White on a1 with the black king on b3 and the
\* black queen on b2 (mate)
stuckInputs ==
  {[board |-> SearchBoard(sq, "wQ"), turn |-> "b",
    rights |-> [wK |-> FALSE, wQ |-> FALSE, bK |-> FALSE, bQ |-> FALSE]] : sq \in {9, 10}}
  \union {[board |-> [i \in Squares |-> IF i = 56 THEN "wK" ELSE IF i = 41 THEN "bK"
                                        ELSE IF i = 49 THEN "bQ" ELSE Null],
           turn |-> "w",
           rights |-> [wK |-> FALSE, wQ |-> FALSE, bK |-> FALSE, bQ |-> FALSE]]}

\* the positions searched: the inputs with either side to move, the
\* positions without a legal move, and the game makeMove ends by Qd5-b7 mate
SearchStarts ==
  {SearchPosition(in, t) : in \in searchInputs, t \in {"w", "b"}}
  \union {SearchPosition(in, in.turn) : in \in stuckInputs}
  \union {MakeMove(SearchPosition([board |-> SearchBoard(27, "wQ"),
                                    rights |-> [wK |-> FALSE, wQ |-> FALSE,
                                                bK |-> FALSE, bQ |-> FALSE]], "w"),
                    Cand(27, 9, Null)).s}

InitSearch ==
  /\ \E start \in {SearchStarts} :
       \E s \in start :
         /\ board = s.board
         /\ turn = s.turn
         /\ moveHistory = s.moveHistory
         /\ castlingRights = s.castlingRights
         /\ enPassantTarget = s.enPassantTarget
         /\ halfMoveClock = s.halfMoveClock
         /\ fullMoveNumber = s.fullMoveNumber
         /\ positionMap = s.positionMap
         /\ gameOver = s.gameOver
         /\ gameResult = s.gameResult
         /\ prevEng = s
  /\ line = 1
  /\ step = 0
  /\ called = "position"
  /\ arg = NoArg
  /\ ret = <<>>
  /\ AiInit

\* setDifficulty(level): depth = max(1, min(5, level))
SetDifficultyCall ==
  /\ called = "position"
  /\ \E level \in 1..MaxDepth : aiDepth' = Max(1, Min(5, level))
  /\ called' = "setDifficulty"
  /\ step' = step + 1
  /\ UNCHANGED <<engineVars, line, arg, ret, prevEng,
                 aiNodes, aiRunning, aiThinking, aiTasks, stopIssued>>

\* _minimax(engine, depth, -Infinity, Infinity, engine.turn === 'w')
MinimaxCall ==
  /\ called = "position"
  /\ \E depth \in 0..MaxDepth :
       \E r \in {Minimax(Eng, depth, -Infinity, Infinity, turn = "w")} :
         /\ SetEng(r.eng)
         /\ aiNodes' = aiNodes + r.nodes
         /\ ret' = <<[depth |-> depth, score |-> r.score]>>
  /\ called' = "_minimax"
  /\ arg' = NoArg
  /\ step' = step + 1
  /\ prevEng' = Eng
  /\ UNCHANGED <<line, aiDepth, aiRunning, aiThinking, aiTasks, stopIssued>>

\* getBestMove(engine), once setDifficulty has set a depth within MaxDepth
GetBestMoveCall ==
  /\ called = "setDifficulty"
  /\ aiDepth <= MaxDepth
  /\ \E r \in {GetBestMove(Eng, aiDepth)} :
       /\ SetEng(r.eng)
       /\ aiNodes' = IF r.started THEN r.nodes ELSE aiNodes
       /\ aiRunning' = (r.started \/ aiRunning)
       /\ IF r.best = {} THEN ret' = <<>> ELSE \E m \in r.best : ret' = <<m>>
  /\ called' = "getBestMove"
  /\ arg' = NoArg
  /\ step' = step + 1
  /\ prevEng' = Eng
  /\ UNCHANGED <<line, aiDepth, aiThinking, aiTasks, stopIssued>>

SpecSearch == InitSearch /\ [][SetDifficultyCall \/ MinimaxCall \/ GetBestMoveCall]_vars

(***************************************************************************)
(* The application in a game against the AI (mode pvai, the AI plays       *)
(* Black, depth 1).  A handler runs to completion; between two handlers    *)
(* any pending timer may fire and any button may be pressed.  The AI turn  *)
(* (_triggerAI) is cut at its awaits: the timer that starts it, the 50 ms  *)
(* delay, and the timer of getBestMoveAsync whose callback runs the whole  *)
(* search and, in the same turn of the event loop, the rest of _triggerAI. *)
(***************************************************************************)
appMode == "pvai"
appAiColor == "b"
\* gameConfig.aiDepth chosen for the game
appAiDepth == 1
\* AI turns scheduled and not finished, at most
MaxTasks == 2
\* moves are committed while fullMoveNumber is at most this
MaxFullMoves == 1
\* the squares the player drags between: e2-e4, d2-d4
appCands == {Cand(52, 36, Null), Cand(51, 35, Null)}

TasksPending == aiTasks.timer + aiTasks.delay + aiTasks.queued

\* the state _startNewGame leaves
InitApp ==
  /\ board = ResetState.board
  /\ turn = ResetState.turn
  /\ moveHistory = ResetState.moveHistory
  /\ castlingRights = ResetState.castlingRights
  /\ enPassantTarget = ResetState.enPassantTarget
  /\ halfMoveClock = ResetState.halfMoveClock
  /\ fullMoveNumber = ResetState.fullMoveNumber
  /\ positionMap = ResetState.positionMap
  /\ gameOver = ResetState.gameOver
  /\ gameResult = ResetState.gameResult
  /\ line = 1
  /\ step = 0
  /\ called = "_startNewGame"
  /\ arg = NoArg
  /\ ret = <<>>
  /\ prevEng = ResetState
  /\ aiDepth = Max(1, Min(5, appAiDepth))
  /\ aiNodes = 0
  /\ aiRunning = FALSE
  /\ aiThinking = FALSE
  /\ aiTasks = NoTasks
  /\ stopIssued = 0

\* _onDrop and _attemptMove: the guards, makeMove, and the timer for the AI
AppAttemptMove ==
  /\ ~(aiThinking \/ gameOver)
  /\ ~(appMode = "pvai" /\ turn = appAiColor)
  /\ TasksPending < MaxTasks
  /\ fullMoveNumber <= MaxFullMoves
  /\ \E cand \in appCands :
       \E r \in {MakeMove(Eng, cand)} :
         /\ SetEng(r.s)
         /\ ret' = r.ret
         /\ arg' = cand
         /\ aiTasks' =
              IF r.ret # <<>> /\ ~r.s.gameOver /\ appMode = "pvai" /\ r.s.turn = appAiColor
              THEN [aiTasks EXCEPT !.timer = @ + 1]
              ELSE aiTasks
  /\ called' = "_attemptMove"
  /\ prevEng' = Eng
  /\ UNCHANGED <<line, step, aiDepth, aiNodes, aiRunning, aiThinking, stopIssued>>

\* _triggerAI up to its first await
AppTriggerAI ==
  /\ aiTasks.timer > 0
  /\ IF aiThinking \/ gameOver \/ turn # appAiColor
     THEN /\ aiTasks' = [aiTasks EXCEPT !.timer = @ - 1]
          /\ UNCHANGED aiThinking
     ELSE /\ aiTasks' = [aiTasks EXCEPT !.timer = @ - 1, !.delay = @ + 1]
          /\ aiThinking' = TRUE
  /\ called' = "_triggerAI"
  /\ arg' = NoArg
  /\ ret' = <<>>
  /\ prevEng' = Eng
  /\ UNCHANGED <<engineVars, line, step, aiDepth, aiNodes, aiRunning, stopIssued>>

\* the 50 ms delay is over: getBestMoveAsync is called and sets its timer
AppRequestSearch ==
  /\ aiTasks.delay > 0
  /\ aiTasks' = [aiTasks EXCEPT !.delay = @ - 1, !.queued = @ + 1]
  /\ called' = "getBestMoveAsync"
  /\ arg' = NoArg
  /\ ret' = <<>>
  /\ prevEng' = Eng
  /\ UNCHANGED <<engineVars, line, step, aiDepth, aiNodes, aiRunning, aiThinking,
                 stopIssued>>

\* the move _triggerAI passes to makeMove: always a queen for a promotion
AiMove(s, move) ==
  Cand(move.from, move.to,
       IF \E i \in DOMAIN GetLegalMoves(s, move.from) :
            /\ GetLegalMoves(s, move.from)[i].to = move.to
            /\ GetLegalMoves(s, move.from)[i].promoteTo # Null
       THEN pieceTable[appAiColor]["Q"]
       ELSE move.promoteTo)

\* the timer of getBestMoveAsync fires: getBestMove runs, then the rest of
\* _triggerAI clears aiThinking and commits the move
AppSearch ==
  /\ aiTasks.queued > 0
  /\ fullMoveNumber <= MaxFullMoves
  /\ aiTasks' = [aiTasks EXCEPT !.queued = @ - 1]
  /\ \E r \in {GetBestMove(Eng, aiDepth)} :
       /\ aiNodes' = IF r.started THEN r.nodes ELSE aiNodes
       /\ aiRunning' = (r.started \/ aiRunning)
       /\ IF r.best = {} \/ r.eng.gameOver
          THEN /\ SetEng(r.eng)
               /\ ret' = <<>>
               /\ arg' = NoArg
          ELSE \E move \in r.best :
                 \E m \in {MakeMove(r.eng, AiMove(r.eng, move))} :
                   /\ SetEng(m.s)
                   /\ ret' = m.ret
                   /\ arg' = AiMove(r.eng, move)
  /\ aiThinking' = FALSE
  /\ stopIssued' = Max(0, stopIssued - 1)
  /\ called' = "getBestMove"
  /\ prevEng' = Eng
  /\ UNCHANGED <<line, step, aiDepth>>

\* App._undo: one undoMove, and a second one in pvai mode
AppUndo ==
  /\ ~gameOver
  /\ Len(moveHistory) > 0
  /\ \E first \in {UndoMove(Eng)} :
       IF appMode = "pvai" /\ Len(first.s.moveHistory) > 0
       THEN SetEng(UndoMove(first.s).s)
       ELSE SetEng(first.s)
  /\ called' = "_undo"
  /\ arg' = NoArg
  /\ ret' = <<>>
  /\ prevEng' = Eng
  /\ UNCHANGED <<line, step, aiVars>>

\* App._startNewGame: ai.stop(), aiThinking cleared, engine.reset()
AppStartNewGame ==
  /\ aiRunning' = FALSE
  /\ stopIssued' = aiTasks.queued
  /\ aiThinking' = FALSE
  /\ SetEng(ResetState)
  /\ aiDepth' = Max(1, Min(5, appAiDepth))
  /\ called' = "_startNewGame"
  /\ arg' = NoArg
  /\ ret' = <<>>
  /\ prevEng' = Eng
  /\ UNCHANGED <<line, step, aiNodes, aiTasks>>

NextApp ==
  \/ AppAttemptMove
  \/ AppTriggerAI
  \/ AppRequestSearch
  \/ AppSearch
  \/ AppUndo
  \/ AppStartNewGame

SpecApp == InitApp /\ [][NextApp]_vars

(***************************************************************************)
(* C21: after every committed move, enPassantTarget is non-null exactly    *)
(* when that move was a double pawn push, and it is then the square the    *)
(* pawn skipped over; a target set by one move is cleared by the next      *)
(* committed move unless that move is itself a double push.                *)
(***************************************************************************)
IsDoublePush(m) ==
  /\ Type(m.piece) = "P"
  /\ Col(m.from) = Col(m.to)
  /\ Abs(Row(m.from) - Row(m.to)) = 2

SkippedSquare(m) == (m.from + m.to) \div 2

C21_EnPassantTarget ==
  [][CommitsNext =>
       IF IsDoublePush(ret'[1])
       THEN enPassantTarget' = SkippedSquare(ret'[1])
       ELSE enPassantTarget' = NoSq]_vars

\* a target set by a double push has been cleared by the following single step
C21_Witness ==
  /\ Committed /\ Len(moveHistory) >= 2
  /\ IsDoublePush(moveHistory[Len(moveHistory) - 1])
  /\ prevEng.enPassantTarget = SkippedSquare(moveHistory[Len(moveHistory) - 1])
  /\ ~IsDoublePush(ret[1])
  /\ enPassantTarget = NoSq

(***************************************************************************)
(* C22: a committed move sets halfMoveClock to 0 if it moves a pawn or     *)
(* captures a piece (an en-passant capture included), and otherwise        *)
(* increases halfMoveClock by exactly 1.                                   *)
(***************************************************************************)
\* judged on the board before the move: the moved piece and the destination
MovesPawn(b, m) == Type(b[m.from]) = "P"
CapturesPiece(b, m) == b[m.to] # Null /\ Color(b[m.to]) # Color(b[m.from])

C22_HalfMoveClock ==
  Committed =>
    halfMoveClock =
      IF MovesPawn(prevEng.board, ret[1]) \/ CapturesPiece(prevEng.board, ret[1])
      THEN 0
      ELSE prevEng.halfMoveClock + 1

(***************************************************************************)
(* C23: for every position reachable by committed moves, exporting it with *)
(* toFEN and loading the result through FENManager.import (which accepts   *)
(* it) and loadFEN reproduces the same board, turn, castling rights,       *)
(* en-passant target, halfMoveClock and fullMoveNumber.                    *)
(***************************************************************************)
ImportAttempted == called \in {"FENManager.import", "FENManager.import throws"}

C23_FenRoundTrip ==
  ImportAttempted =>
    /\ called = "FENManager.import"
    /\ PositionNow = Position(prevEng)

\* a position after several moves, with an en-passant target, a lost
\* castling right and a running clock elsewhere in the line, has come back
C23_Witness ==
  /\ called = "FENManager.import"
  /\ Len(prevEng.moveHistory) >= 3
  /\ enPassantTarget # NoSq
  /\ board # StartBoard
  /\ PositionNow = Position(prevEng)

(***************************************************************************)
(* C24: on every path that replaces the live position from a FEN string    *)
(* (here engine.loadFEN as called by puzzle loading and by the PGN FEN     *)
(* tag), a string whose piece placement does not decode to exactly 8 ranks *)
(* of 8 files, whose turn field is not w or b, whose castling field has a  *)
(* character outside KQkq and -, or whose en-passant field is neither a    *)
(* target square nor -, raises an error and leaves the live position, the  *)
(* move list and the position history unchanged.                           *)
(***************************************************************************)
RECURSIVE FilesCovered(_)
\* the files a rank string decodes to; 99 when a character is no piece or digit
FilesCovered(row) ==
  IF row = <<>> THEN 0
  ELSE IF Head(row) \in DOMAIN letterPiece THEN 1 + FilesCovered(Tail(row))
  ELSE IF IsDigit(Head(row)) THEN DigitVal(Head(row)) + FilesCovered(Tail(row))
  ELSE 99

Malformed(fen) ==
  \/ Len(fen) < 4
  \/ LET ranks == SplitOn(fen[1], "/", <<>>) IN
       Len(ranks) # 8 \/ \E r \in 1..Len(ranks) : FilesCovered(ranks[r]) # 8
  \/ fen[2] \notin {<<"w">>, <<"b">>}
  \/ \E i \in 1..Len(fen[3]) : fen[3][i] \notin {"K", "Q", "k", "q", "-"}
  \/ /\ fen[4] # <<"-">>
     /\ ~(/\ Len(fen[4]) = 2
          /\ \E i \in 1..8 : fileChars[i] = fen[4][1]
          /\ fen[4][2] \in {"3", "6"})

C24_MalformedFenRejected ==
  [][(Entry.op = "load" /\ called' \in {"loadFEN", "loadFEN throws"}
        /\ Malformed(Entry.fen))
       => (called' = "loadFEN throws" /\ UNCHANGED engineVars)]_vars

(***************************************************************************)
(* C25: for any position and any depth d >= 0, the score _minimax returns  *)
(* when called with the full window equals the score of a plain minimax    *)
(* over the same tree, with the same leaf evaluator and the same mate and  *)
(* stalemate scores but no pruning, whatever the move ordering.            *)
(***************************************************************************)
RECURSIVE PlainMinimax(_, _, _)
PlainMinimax(s, depth, isMaximizing) ==
  IF depth = 0 \/ s.gameOver THEN Evaluate(s)
  ELSE LET moves == GetAllLegalMoves(s) IN
       IF Len(moves) = 0
       THEN (IF IsInCheck(s.board, s.turn)
             THEN (IF isMaximizing THEN -(99999 + depth) * 10 ELSE (99999 + depth) * 10)
             ELSE 0)
       ELSE LET below == {PlainMinimax(ApplyMoveFull(s, moves[i]), depth - 1, ~isMaximizing) :
                            i \in 1..Len(moves)}
            IN CHOOSE x \in below :
                 \A y \in below : IF isMaximizing THEN y <= x ELSE y >= x

C25_AlphaBetaIsMinimax ==
  called = "_minimax" =>
    ret[1].score = PlainMinimax(prevEng, ret[1].depth, prevEng.turn = "w")

\* a depth-2 search that cut a branch off: fewer calls than the tree has nodes
C25_Witness ==
  /\ called = "_minimax" /\ ret[1].depth = 2
  /\ \E moves \in {GetAllLegalMoves(prevEng)} :
       /\ Len(moves) >= 2
       /\ aiNodes < 1 + Len(moves)
                      + SumFn([i \in 1..Len(moves) |->
                                 Len(GetAllLegalMoves(ApplyMoveFull(prevEng, moves[i])))],
                              1, Len(moves))

(***************************************************************************)
(* C26: getBestMove(engine) returns with the engine's board, turn,         *)
(* castling rights, en-passant target, halfMoveClock, fullMoveNumber,      *)
(* gameOver, gameResult, move list and position history equal to their     *)
(* values at the call, for every depth; each apply-then-restore inside the *)
(* search yields the position it started from.                             *)
(***************************************************************************)
C26_SearchLeavesEngine ==
  called = "getBestMove" => Eng = prevEng

\* a depth-2 search from a position with castling rights has returned a
\* move, after applying and restoring king and rook moves
C26_Witness ==
  /\ called = "getBestMove" /\ aiDepth = 2 /\ ret # <<>>
  /\ castlingRights.wK /\ castlingRights.bQ
  /\ aiNodes > Len(GetAllLegalMoves(Eng))
  /\ Eng = prevEng

(***************************************************************************)
(* C27: a stop() issued between a search being requested                   *)
(* (getBestMoveAsync) and that search completing takes effect at root      *)
(* granularity: no root-level candidate move is searched after stop() has  *)
(* been called.  The timers of getBestMoveAsync fire in the order they     *)
(* were set, so the search that runs was requested before the last stop()  *)
(* exactly when stopIssued is positive; searching no root candidate leaves *)
(* ChessAI.nodes at 0.                                                     *)
(***************************************************************************)
C27_StopHonoured ==
  [][(stopIssued > 0 /\ ~gameOver /\ called' = "getBestMove") => aiNodes' = 0]_vars

(***************************************************************************)
(* C28: from the moment _triggerAI sets aiThinking until the AI's move has *)
(* been committed or abandoned, no other handler commits a move to or      *)
(* otherwise changes the engine position the pending search was requested  *)
(* for: while an AI turn is past its guards (in its delay or with its      *)
(* search queued), a step that is not the completion of a search leaves    *)
(* the position alone.                                                     *)
(***************************************************************************)
C28_PositionHeldForSearch ==
  [][(aiTasks.delay + aiTasks.queued > 0 /\ called' # "getBestMove")
       => UNCHANGED <<board, turn, castlingRights, enPassantTarget>>]_vars

(***************************************************************************)
(* C29: when a committed knight, bishop, rook or queen move has another    *)
(* piece of the same kind and colour that could also move to the same      *)
(* destination square, the generated SAN contains a disambiguator: the     *)
(* origin file if no such other piece shares that file, else the origin    *)
(* rank if none shares that rank, else the full origin square; when no     *)
(* such other piece exists the SAN has no disambiguator.  "Could also      *)
(* move" is read as the engine reads it, over the pseudo-legal moves, in   *)
(* the position the move was made from.                                    *)
(***************************************************************************)
\* the squares of the other pieces like the moved one that could reach its
\* destination before the move
Rivals(s, rec) ==
  LET pseudo == GetAllPseudoMoves(s.board, Color(rec.piece), s.castlingRights,
                                  s.enPassantTarget)
  IN {pseudo[i].from : i \in {j \in 1..Len(pseudo) :
                                /\ pseudo[j].to = rec.to
                                /\ pseudo[j].from # rec.from
                                /\ s.board[pseudo[j].from] = rec.piece}}

Disambiguator(rec, rivals) ==
  IF rivals = {} THEN <<>>
  ELSE IF \A q \in rivals : Col(q) # Col(rec.from) THEN <<fileChars[Col(rec.from) + 1]>>
  ELSE IF \A q \in rivals : Row(q) # Row(rec.from) THEN ToDec(8 - Row(rec.from))
  ELSE SqToAlg(rec.from)

PieceMoveCommitted ==
  /\ Committed
  /\ Type(ret[1].piece) \in {"N", "B", "R", "Q"}

C29_SanDisambiguation ==
  PieceMoveCommitted =>
    ret[1].san = <<Type(ret[1].piece)>>
                   \o Disambiguator(ret[1], Rivals(prevEng, ret[1]))
                   \o (IF ret[1].captured # Null THEN <<"x">> ELSE <<>>)
                   \o SqToAlg(ret[1].to)
                   \o (IF ret[1].isMate THEN <<"#">>
                       ELSE IF ret[1].isCheck THEN <<"+">> ELSE <<>>)

(***************************************************************************)
(* C30: a committed castling move gets SAN O-O exactly when the king lands *)
(* on the g-file next to the rook moved from the h-file, and O-O-O exactly *)
(* when it lands on the c-file next to the rook moved from the a-file; and *)
(* replaying the token O-O (resp. O-O-O) through PGNManager commits that   *)
(* king-side (resp. queen-side) castling whenever it is legal.             *)
(***************************************************************************)
\* the king stands on the g-file with the rook that left the h-file beside it
KingSideCastled(rec, pre, post) ==
  /\ Type(rec.piece) = "K"
  /\ Col(rec.to) = 6
  /\ post.board[rec.to] = rec.piece
  /\ rec.rookFrom # NoSq /\ Col(rec.rookFrom) = 7
  /\ pre.board[rec.rookFrom] = pieceTable[Color(rec.piece)]["R"]
  /\ post.board[rec.rookFrom] = Null
  /\ post.board[rec.to - 1] = pieceTable[Color(rec.piece)]["R"]

\* the king stands on the c-file with the rook that left the a-file beside it
QueenSideCastled(rec, pre, post) ==
  /\ Type(rec.piece) = "K"
  /\ Col(rec.to) = 2
  /\ post.board[rec.to] = rec.piece
  /\ rec.rookFrom # NoSq /\ Col(rec.rookFrom) = 0
  /\ pre.board[rec.rookFrom] = pieceTable[Color(rec.piece)]["R"]
  /\ post.board[rec.rookFrom] = Null
  /\ post.board[rec.to + 1] = pieceTable[Color(rec.piece)]["R"]

\* the SAN without its check or mate mark
SanCore(rec) == SelectSeq(rec.san, LAMBDA c : c \notin {"+", "#"})

CastlingCommitted ==
  /\ called \in {"makeMove", "replay O-O", "replay O-O-O"}
  /\ ret # <<>>
  /\ ret[1].type \in {"castleKing", "castleQueen"}

\* the rules allow that castling in position s: king and rook at home with
\* the right left, the squares between them empty, the king not in check
\* and crossing no attacked square
CastlingLegal(s, side) ==
  LET home == IF s.turn = "w" THEN 60 ELSE 4
      rook == IF side = "K" THEN home + 3 ELSE home - 4
      path == IF side = "K" THEN {home + 1, home + 2} ELSE {home - 1, home - 2}
      between == IF side = "K" THEN path ELSE path \union {home - 3}
  IN /\ ~s.gameOver
     /\ s.board[home] = pieceTable[s.turn]["K"]
     /\ s.board[rook] = pieceTable[s.turn]["R"]
     /\ s.castlingRights[IF s.turn = "w" THEN (IF side = "K" THEN "wK" ELSE "wQ")
                         ELSE (IF side = "K" THEN "bK" ELSE "bQ")]
     /\ \A q \in between : s.board[q] = Null
     /\ \A q \in path \union {home} : ~RuleAttacked(s.board, q, Opp(s.turn))

C30_CastlingNotation ==
  /\ CastlingCommitted =>
       /\ SanCore(ret[1]) = <<"O", "-", "O">> <=> KingSideCastled(ret[1], prevEng, Eng)
       /\ SanCore(ret[1]) = <<"O", "-", "O", "-", "O">>
            <=> QueenSideCastled(ret[1], prevEng, Eng)
  /\ (called = "replay O-O" /\ CastlingLegal(prevEng, "K"))
       => ret # <<>> /\ KingSideCastled(ret[1], prevEng, Eng)
  /\ (called = "replay O-O-O" /\ CastlingLegal(prevEng, "Q"))
       => ret # <<>> /\ QueenSideCastled(ret[1], prevEng, Eng)

(***************************************************************************)
(* C31: the position snapshot stored in each MoveRecord (its fen) equals   *)
(* the export (toFEN) of the live position immediately after that makeMove *)
(* returns: same board, side to move, castling rights, en-passant target   *)
(* and clocks.                                                             *)
(***************************************************************************)
C31_RecordFenIsLivePosition ==
  Committed => ret[1].fen = ToFEN(Eng)

(***************************************************************************)
(* C32: getBestMove returns null when the game is over or the side to move *)
(* has no legal move; otherwise, for every depth and every outcome of the  *)
(* root shuffle, it returns a move that is a member of getAllLegalMoves()  *)
(* of the (unchanged) position, so that makeMove of it succeeds.           *)
(***************************************************************************)
NothingToSearch(s) == s.gameOver \/ Len(GetAllLegalMoves(s)) = 0

C32_BestMoveIsLegal ==
  called = "getBestMove" =>
    IF NothingToSearch(prevEng) THEN ret = <<>>
    ELSE /\ ret # <<>>
         /\ Eng = prevEng
         /\ InSeq(GetAllLegalMoves(Eng), ret[1])
         /\ MakeMove(Eng, Cand(ret[1].from, ret[1].to, ret[1].promoteTo)).ret # <<>>

\* a capture was available and a move came back from the deepest search
C32_Witness ==
  /\ called = "getBestMove"
  /\ aiDepth = MaxDepth
  /\ ret # <<>>
  /\ \E i \in DOMAIN GetAllLegalMoves(Eng) : board[GetAllLegalMoves(Eng)[i].to] # Null
  /\ InSeq(GetAllLegalMoves(Eng), ret[1])

(***************************************************************************)
(* C33 (as claimed): at a search node where the side to move has no legal  *)
(* move, _minimax returns 0 if that side is not in check, and otherwise    *)
(* -(99999 + remaining depth) when White is the mated side and             *)
(* +(99999 + remaining depth) when Black is; hence a mate reached nearer   *)
(* the root has strictly larger magnitude than one reached deeper, and the *)
(* root prefers the quicker mate.  Scores are held times 10.               *)
(***************************************************************************)
\* the score the claim gives a node without a legal move
StuckScore(s, depth) ==
  IF ~IsInCheck(s.board, s.turn) THEN 0
  ELSE IF s.turn = "w" THEN -(99999 + depth) * 10
  ELSE (99999 + depth) * 10

\* the legal moves of s that leave the opponent in check without a legal move
MatingMoves(s) ==
  {m \in {GetAllLegalMoves(s)[i] : i \in DOMAIN GetAllLegalMoves(s)} :
     \E after \in {ApplyMoveFull(s, m)} :
       /\ Len(GetAllLegalMoves(after)) = 0
       /\ IsInCheck(after.board, after.turn)}

C33_MateScoreAtEveryNode ==
  /\ (called = "_minimax" /\ Len(GetAllLegalMoves(prevEng)) = 0)
       => ret[1].score = StuckScore(prevEng, ret[1].depth)
  /\ (called = "getBestMove" /\ ret # <<>> /\ MatingMoves(prevEng) # {})
       => ret[1] \in MatingMoves(prevEng)

(***************************************************************************)
(* C33 (amended): the mate and stalemate scores are returned at the nodes  *)
(* that are neither leaves (remaining depth 0) nor game-over positions,    *)
(* where the evaluation is returned instead; and the root prefers a mate   *)
(* in one when it searches at depth 2 or more.                             *)
(***************************************************************************)
C33_MateScoreAtInnerNodes ==
  /\ (called = "_minimax" /\ Len(GetAllLegalMoves(prevEng)) = 0)
       => ret[1].score =
            IF ret[1].depth = 0 \/ prevEng.gameOver THEN Evaluate(prevEng)
            ELSE StuckScore(prevEng, ret[1].depth)
  /\ (called = "getBestMove" /\ aiDepth >= 2 /\ ret # <<>> /\ MatingMoves(prevEng) # {})
       => ret[1] \in MatingMoves(prevEng)

\* White, to move at depth 2 with a mate in one and other moves, mates
C33_Witness ==
  /\ called = "getBestMove"
  /\ aiDepth >= 2
  /\ ret # <<>>
  /\ ret[1] \in MatingMoves(prevEng)
  /\ Len(GetAllLegalMoves(prevEng)) > Cardinality(MatingMoves(prevEng))

(***************************************************************************)
(* C34: for every legal move in every reachable position, the position     *)
(* produced by applyMoveFull equals the position produced by committing    *)
(* the same move with makeMove, in board, turn, castling rights,           *)
(* en-passant target, halfMoveClock and fullMoveNumber.                    *)
(***************************************************************************)
\* the fields two positions are compared in
SameSquaresTurnRightsTarget(a, b) ==
  /\ a.board = b.board
  /\ a.turn = b.turn
  /\ a.castlingRights = b.castlingRights
  /\ a.enPassantTarget = b.enPassantTarget

SameClocks(a, b) ==
  /\ a.halfMoveClock = b.halfMoveClock
  /\ a.fullMoveNumber = b.fullMoveNumber

C34_ApplyMoveFullIsMakeMove ==
  Committed =>
    \E simulated \in {ApplyMoveFull(prevEng, ret[1])} :
      /\ SameSquaresTurnRightsTarget(simulated, Eng)
      /\ SameClocks(simulated, Eng)

(***************************************************************************)
(* C35: in player-vs-AI mode, an Undo issued when the move list ends with  *)
(* the player's move followed by the AI's reply removes both moves:        *)
(* afterwards the position (board, turn, rights, en-passant target,        *)
(* clocks) is the one before the player's move and it is the human         *)
(* player's turn.                                                          *)
(***************************************************************************)
\* the move list of s ends with the player's move and the AI's reply
EndsWithReply(s) ==
  LET n == Len(s.moveHistory) IN
  /\ n >= 2
  /\ Color(s.moveHistory[n].piece) = appAiColor
  /\ Color(s.moveHistory[n - 1].piece) = Opp(appAiColor)

\* the position before the last two moves of s: the one _startNewGame left,
\* or the one the record of the move before them describes
BeforeLastPair(s) ==
  LET n == Len(s.moveHistory) IN
  IF n = 2 THEN ResetState
  ELSE [LoadFEN(s, s.moveHistory[n - 2].fen) EXCEPT !.turn = Opp(appAiColor)]

C35_UndoRemovesMoveAndReply ==
  (called = "_undo" /\ EndsWithReply(prevEng)) =>
    /\ SameSquaresTurnRightsTarget(Eng, BeforeLastPair(prevEng))
    /\ SameClocks(Eng, BeforeLastPair(prevEng))
    /\ turn = Opp(appAiColor)


(***************************************************************************)
(* C36: in a game against the AI every move that _triggerAI commits is a   *)
(* move of a piece of aiColor, made when engine.turn equals aiColor; under *)
(* no interleaving of user actions with a pending search does the AI move  *)
(* for the human's side.                                                   *)
(***************************************************************************)
C36_AiMovesOwnSide ==
  [][(called' = "getBestMove" /\ ret' # <<>>)
       => (turn = appAiColor /\ Color(ret'[1].piece) = appAiColor)]_vars


(***************************************************************************)
(* AnalysisManager.getBoardAtCurrentMove(engine): the moves of the list    *)
(* up to viewedMove replayed on a new ChessEngine; a move with no match    *)
(* among the pseudo-legal moves of the replay is skipped.                  *)
(***************************************************************************)
ReplayFound(temp, hits) == IF hits = <<>> THEN temp ELSE ApplyMoveFull(temp, Head(hits))

ReplayOne(temp, m) ==
  ReplayFound(temp,
              SelectSeq(GetAllPseudoMoves(temp.board, temp.turn, temp.castlingRights,
                                          temp.enPassantTarget),
                        LAMBDA lm : Matches(lm, m)))

RECURSIVE ReplayTo(_, _, _, _)
ReplayTo(temp, history, i, viewedMove) ==
  IF i > viewedMove
  THEN temp
  ELSE ReplayTo(ReplayOne(temp, history[i + 1]), history, i + 1, viewedMove)

GetBoardAtCurrentMove(s, viewedMove) ==
  IF viewedMove < 0
  THEN StartBoard
  ELSE ReplayTo(ResetState, s.moveHistory, 0, viewedMove).board

(***************************************************************************)
(* C37: for every game in the engine's move list, games begun from a       *)
(* loaded FEN included, the board getBoardAtCurrentMove returns for the    *)
(* last index of the list equals the live engine's board: checked after    *)
(* every committed move, viewedMove being the index of that move.          *)
(***************************************************************************)
C37_ReplayedBoardIsLiveBoard ==
  Committed => GetBoardAtCurrentMove(Eng, Len(moveHistory) - 1) = board


(***************************************************************************)
(* C38: when PGNManager.import raises an error, the engine's game state    *)
(* (position, move list, position history, game-over state) is the same    *)
(* as before the import call.                                              *)
(***************************************************************************)
C38_FailedImportLeavesGame ==
  called = "PGNManager.import throws" => Eng = prevEng


(***************************************************************************)
(* C39: after any sequence of reset, loadFEN (with any string it accepts   *)
(* without raising), makeMove and undoMove, the board is an array of       *)
(* exactly 64 cells, each empty or holding one piece of a valid colour and *)
(* kind.                                                                   *)
(***************************************************************************)
validPieces == {pieceTable[c][k] : c \in {"w", "b"}, k \in {"P", "N", "B", "R", "Q", "K"}}

C39_BoardShape ==
  /\ DOMAIN board = Squares
  /\ \A i \in Squares : board[i] = Null \/ board[i] \in validPieces

============================================================================
